---------------------------- MODULE Spec2Model ----------------------------
(***************************************************************************)
(* Model of the multi-tenant bot orchestration engine of ezyago:           *)
(*   src/ezyago-main/src/bot_manager.py        (BotManager, the registry)  *)
(*   src/ezyago-main/src/user_bot_instance.py  (UserBotInstance)           *)
(*   src/ezyago-main/src/binance_client_multi.py (MultiBinanceClient)      *)
(*                                                                         *)
(* The program runs on one asyncio event loop: a coroutine runs without    *)
(* interruption until it awaits something that really suspends (a network  *)
(* call of the exchange client, asyncio.sleep, a task).  The calls of      *)
(* firebase_manager are `async def` without any suspension inside, so they *)
(* run to completion where they are called.  `running` names the registry  *)
(* coroutine that holds the event loop between two suspension points; the  *)
(* other actions are enabled only when nobody holds it.                    *)
(***************************************************************************)
EXTENDS Integers, Sequences, FiniteSets, TLC

\* ---------------------------------------------------------------- bounds
MaxReq == 3          \* start/stop requests issued in one behaviour
MaxCandles == 2      \* closed candles delivered to one stream task
MaxCloses == 22      \* length of the longest window given to analyze_klines
MaxMsgs == 3                           \* messages a stream delivers to _handle_websocket_message
MaxTrades == 3                         \* records written to the ledger of a user
MaxAdmitted == 54                      \* requests the rate limiter lets through
MaxNow == 3602                         \* the latest reading of time.time()

\* ------------------------------------------------------------- constants
Users == {"u1", "u2"}
Symbols == {"btcusdt", "XYZUSDT"}      \* what a start request may carry
ExchangeSymbols == {"BTCUSDT"}         \* symbols of exchange_info
Prices == {92, 100, 108, 5000}         \* what get_market_price may return
NoPrice == 0                           \* get_market_price returned None
Closes == {92, 100, 108}               \* the close a kline may carry
NoQuantity == [n |-> 0, d |-> 1]       \* position_quantity = None
NoTradeId == 0                         \* current_trade_id = None
\* the statistics of a new user document (models.py)
NewStats ==
  [ present |-> TRUE, total_trades |-> 0, winning_trades |-> 0,
    losing_trades |-> 0, total_pnl |-> 0 ]
Precisions == {0, 1}                   \* decimals a LOT_SIZE stepSize may have
\* _get_precision_from_filter on the LOT_SIZE filter of the exchange's symbols
LotSizeDecimals == [s \in ExchangeSymbols |-> 1]
order_size_usdt == 25                  \* bot_order_size_usdt
leverage == 10                         \* bot_leverage
take_profit_percent == 8               \* bot_take_profit_percent
stop_loss_percent == 4                 \* bot_stop_loss_percent
timeframe == "15m"                     \* bot_timeframe
\* the bot settings of a user document as models.py gives them by default
DefaultSettings ==
  [ order_size_usdt |-> order_size_usdt, leverage |-> leverage,
    stop_loss_percent |-> stop_loss_percent,
    take_profit_percent |-> take_profit_percent, timeframe |-> timeframe ]
\* what POST /api/bot/settings may store
SettingsChoices ==
  {DefaultSettings,
   [ order_size_usdt |-> 50, leverage |-> 20, stop_loss_percent |-> 2,
     take_profit_percent |-> 5, timeframe |-> "1h" ]}
\* the settings fields of an instance slot before __init__ ran
NoSettings ==
  [ order_size_usdt |-> 0, leverage |-> 0, stop_loss_percent |-> 0,
    take_profit_percent |-> 0, timeframe |-> "None" ]
short_ema_period == 9                  \* TradingStrategy(short_ema_period=9, ...)
long_ema_period == 21                  \* TradingStrategy(..., long_ema_period=21)
SeedCloses == long_ema_period - 3      \* closes of the window before the first append
None == "None"
NoInst == 0
Inst == 1..MaxReq                      \* one instance per start request at most
Req == 1..MaxReq
Sweep == 0                             \* the cleanup_inactive_bots task
Proc == {Sweep} \cup Req
Idle == -1

VARIABLES
  user_bots,      \* BotManager.user_bots: tenant -> instance (NoInst: no key)
  ub_order,       \* insertion order of the keys of user_bots (a dict)
  dbStatus,       \* users/<uid>/bot_status in the settings store
  nextInst,       \* the next UserBotInstance to be constructed
  inst,           \* the fields of every UserBotInstance
  conn,           \* MultiBinanceClient.client of the instance's client object
  task,           \* the asyncio task of _websocket_handler and its frame
  proc,           \* the registry coroutines: requests and the sweep
  running,        \* the registry coroutine holding the event loop, or Idle
  nextReq,        \* the next request to arrive
  inactive_users, \* the sweep's local list
  exPos,          \* the tenant's position on the exchange
  exStop,         \* a resting STOP_MARKET order of the tenant exists
  ledger,         \* trades/<uid>: the records written by log_trade, in order
  stats,          \* users/<uid>: the trade statistics of the user document
  hist,           \* what happened, for the properties (no effect on behaviour)
  klines,         \* the closes of a window given to analyze_klines
  result,         \* what analyze_klines returned for it
  stream,         \* the messages the websocket has still to deliver
  items,          \* stop_all_bots: the entries of its list not yet stopped
  stored,         \* the bot settings of each user document
  now,            \* time.time(), in seconds since the first request
  requests,       \* RateLimiter.requests: identifier -> deque of timestamps
  admitted        \* the requests passed on to call_next, by endpoint class

vars == <<user_bots, ub_order, dbStatus, nextInst, inst, conn, task, proc,
          running, nextReq, inactive_users, exPos, exStop, ledger, stats, hist,
          klines, result, stream, items, stored, now, requests, admitted>>

engineVars == <<user_bots, ub_order, dbStatus, nextInst, inst, conn, task, proc,
                running, nextReq, inactive_users, exPos, exStop, ledger, stats, hist>>
rateVars == <<now, requests, admitted>>
winVars == <<klines, result, stream, stored, rateVars>>
sigVars == <<klines, result, stream, items, stored, rateVars>>

regVars == <<user_bots, ub_order, dbStatus>>
exVars == <<exPos, exStop, ledger, stats>>

\* ------------------------------------------------------------- helpers
\* str.upper() on the symbols of the model
Upper(s) == IF s = "btcusdt" THEN "BTCUSDT" ELSE s

\* UserBotInstance.__init__
NewInstance ==
  [ owner |-> None, is_active |-> FALSE, stop_requested |-> FALSE,
    current_symbol |-> None, position_side |-> None, last_signal |-> None,
    current_trade_id |-> NoTradeId, entry_price |-> NoPrice, entry_time |-> None,
    position_quantity |-> NoQuantity, quantity_precision |-> 0,
    binance_client |-> None, websocket_task |-> None,
    order_size_usdt |-> NoSettings.order_size_usdt, leverage |-> NoSettings.leverage,
    stop_loss_percent |-> NoSettings.stop_loss_percent,
    take_profit_percent |-> NoSettings.take_profit_percent,
    timeframe |-> NoSettings.timeframe ]

\* __init__ lines 24-29: the settings fields are read from the dict once
WithSettings(b, user_settings) ==
  [b EXCEPT !.order_size_usdt = user_settings.order_size_usdt,
            !.leverage = user_settings.leverage,
            !.stop_loss_percent = user_settings.stop_loss_percent,
            !.take_profit_percent = user_settings.take_profit_percent,
            !.timeframe = user_settings.timeframe]

\* the settings an instance trades with
SettingsOf(b) ==
  [ order_size_usdt |-> b.order_size_usdt, leverage |-> b.leverage,
    stop_loss_percent |-> b.stop_loss_percent,
    take_profit_percent |-> b.take_profit_percent, timeframe |-> b.timeframe ]

\* The stream task: its asyncio state and the frame of _websocket_handler and of
\* what it calls.  sig: the signal analyze_klines gives for the window with the
\* candle being handled; open_amt: positionAmt of open_positions[0] as a side;
\* lcReason/lcRet: the argument of _log_trade_closure and its caller; cpRet: the
\* caller of close_position; entry/stop: what the exchange answered to the two
\* orders of create_market_order_with_sl; price: the price _execute_trade got
\* (line 252); current_price: the price _check_take_profit got (line 291).
NewTask ==
  [ state |-> "none", must_cancel |-> FALSE, pc |-> "none", candles |-> 0,
    sig |-> "HOLD", open_amt |-> "FLAT", lcReason |-> None, lcRet |-> None,
    cpRet |-> None, entry |-> "none", stop |-> "none", price |-> NoPrice,
    current_price |-> NoPrice ]

NewProc ==
  [ kind |-> "idle", user |-> None, symbol |-> None, bot |-> NoInst,
    pc |-> "idle", result |-> None, cause |-> None, settings |-> NoSettings ]

\* what the current _execute_trade has done so far
NoFlip == [ hadPos |-> FALSE, held |-> FALSE, closeCalls |-> 0, closedLogged |-> 0,
            opened |-> FALSE ]

NewHist ==
  [ stopReturned |-> [i \in Inst |-> FALSE],
    stoppedWrites |-> [i \in Inst |-> 0],
    runningWrites |-> [i \in Inst |-> 0],
    keyErrors |-> [p \in Proc |-> 0],
    swept |-> [i \in Inst |-> FALSE],
    flip |-> [i \in Inst |-> NoFlip] ]

\* UserBotInstance.is_running
IsRunning(i) == inst[i].is_active /\ ~inst[i].stop_requested

\* `user.uid in self.user_bots`
InMap(u) == user_bots[u] # NoInst

\* asyncio.Task.done()
TaskDone(i) == task[i].state = "done"

Remove(seq, x) == SelectSeq(seq, LAMBDA y : y # x)

\* ------------------------------------------------ rate_limiter.py: data
Identifiers == {"10.0.0.1"}            \* what get_client_ip returns
Paths == {"/health", "/api/auth/login", "/api/admin/users", "/api/bot/status"}
Classes == {"auth", "admin", "other"}
RATE_LIMIT_REQUESTS == 100             \* config.py
RATE_LIMIT_WINDOW == 3600              \* config.py

\* RateLimiter.__init__ (an identifier without a key has an empty deque: the
\* dict is a defaultdict) and the clock at the first request
InitLimiter ==
  /\ now = 0
  /\ requests = [identifier \in Identifiers |-> <<>>]
  /\ admitted = [identifier \in Identifiers |-> [c \in Classes |-> <<>>]]

InitEngine ==
  /\ user_bots = [u \in Users |-> NoInst]
  /\ ub_order = <<>>
  /\ dbStatus = [u \in Users |-> "stopped"]
  /\ nextInst = 1
  /\ inst = [i \in Inst |-> NewInstance]
  /\ conn = [i \in Inst |-> None]
  /\ task = [i \in Inst |-> NewTask]
  /\ proc = [p \in Proc |-> IF p = Sweep
                            THEN [NewProc EXCEPT !.kind = "sweep", !.pc = "sleep"]
                            ELSE NewProc]
  /\ running = Idle
  /\ nextReq = 1
  /\ inactive_users = <<>>
  /\ exPos = [u \in Users |-> "FLAT"]
  /\ exStop = [u \in Users |-> FALSE]
  /\ ledger = [u \in Users |-> <<>>]
  /\ stats = [u \in Users |-> NewStats]
  /\ hist = NewHist

Init ==
  /\ InitEngine /\ klines = <<>> /\ result = "HOLD" /\ stream = <<>> /\ items = <<>>
  /\ stored = [u \in Users |-> DefaultSettings]
  /\ InitLimiter

\* ------------------------------------------------ registry: small pieces
\* firebase_manager.update_user(uid, {'bot_status': ...}) as the registry calls it
Persist(u, status) == [dbStatus EXCEPT ![u] = status]

\* self.user_bots[uid] = bot_instance
MapSet(u, i) == [user_bots EXCEPT ![u] = i]
OrderSet(u) == IF InMap(u) THEN ub_order ELSE Append(ub_order, u)

\* (mutant) the whole map is emptied
MapCleared(u) == [v \in Users |-> NoInst]

\* del self.user_bots[uid]   (raises KeyError when the key is absent)
MapDel(u) == [user_bots EXCEPT ![u] = NoInst]
OrderDel(u) == Remove(ub_order, u)

\* (mutant) line 25 with the test inverted
AlreadyRunningInverted(u) == InMap(u) /\ ~IsRunning(user_bots[u])

\* start_user_bot line 25: the request is rejected when the tenant's entry runs
AlreadyRunning(u) == InMap(u) /\ IsRunning(user_bots[u])

\* (mutant) stop() that neither cancels nor awaits the stream task
StopNeverCancels(i) == FALSE

\* stop() line 130: the stream task is cancelled and awaited
StopMustCancel(i) == inst[i].websocket_task # None /\ ~TaskDone(i)

\* (mutant) _cleanup that leaves the instance marked active
CleanedUpStaysActive(r) == [r EXCEPT !.websocket_task = None, !.is_active = TRUE]

\* _cleanup lines 149-150
CleanedUp(r) == [r EXCEPT !.websocket_task = None, !.is_active = FALSE]

\* ------------------------------------------------ UserBotInstance.stop
\* lines 126-133, run by the coroutine p that holds the loop
StopSync(p) ==
  LET i == proc[p].bot IN
  /\ running = p
  /\ proc[p].pc = "stop_sync"
  /\ inst' = [inst EXCEPT ![i].stop_requested = TRUE, ![i].is_active = FALSE]
  /\ IF StopMustCancel(i)
     THEN /\ task' = [task EXCEPT ![i].must_cancel = TRUE]
          /\ proc' = [proc EXCEPT ![p].pc = "stop_await_task"]
          /\ running' = Idle
     ELSE /\ proc' = [proc EXCEPT ![p].pc = "cleanup"]
          /\ UNCHANGED <<task, running>>
  /\ UNCHANGED <<regVars, exVars, nextInst, conn, nextReq, inactive_users, hist>>

\* line 133: `await self.websocket_task` returns once the task has ended
StopTaskJoined(p) ==
  /\ running = Idle
  /\ proc[p].pc = "stop_await_task"
  /\ TaskDone(proc[p].bot)
  /\ proc' = [proc EXCEPT ![p].pc = "cleanup"]
  /\ running' = p
  /\ UNCHANGED <<regVars, exVars, nextInst, inst, conn, task, nextReq,
                 inactive_users, hist>>

\* _cleanup lines 145-150 up to the suspension in MultiBinanceClient.close
Cleanup(p) ==
  LET i == proc[p].bot IN
  /\ running = p
  /\ proc[p].pc = "cleanup"
  /\ IF inst[i].binance_client # None /\ conn[i] # None
     THEN /\ proc' = [proc EXCEPT ![p].pc = "close_wait"]
          /\ running' = Idle
          /\ UNCHANGED inst
     ELSE /\ inst' = [inst EXCEPT ![i] = CleanedUp([@ EXCEPT !.binance_client = None])]
          /\ proc' = [proc EXCEPT ![p].pc = "stop_ret"]
          /\ UNCHANGED running
  /\ UNCHANGED <<regVars, exVars, nextInst, conn, task, nextReq, inactive_users, hist>>

\* close_connection returned: close() line 189, _cleanup lines 147-150
CloseDone(p) ==
  LET i == proc[p].bot IN
  /\ running = Idle
  /\ proc[p].pc = "close_wait"
  /\ conn' = [conn EXCEPT ![i] = None]
  /\ inst' = [inst EXCEPT ![i] = CleanedUp([@ EXCEPT !.binance_client = None])]
  /\ proc' = [proc EXCEPT ![p].pc = "stop_ret"]
  /\ running' = p
  /\ UNCHANGED <<regVars, exVars, nextInst, task, nextReq, inactive_users, hist>>

StopReturned(i) == [hist EXCEPT !.stopReturned[i] = TRUE]

\* ------------------------------------------------ BotManager.start_user_bot
\* lines 21-31: the request arrives and looks the tenant up
StartUserBot(r, u, s) ==
  /\ running = Idle
  /\ r = nextReq
  /\ nextReq' = nextReq + 1
  /\ IF AlreadyRunning(u)
     THEN /\ proc' = [proc EXCEPT ![r] = [@ EXCEPT !.kind = "start", !.user = u,
                         !.symbol = s, !.pc = "done", !.result = "False",
                         !.cause = "already_running"]]
          /\ UNCHANGED running
     ELSE /\ proc' = [proc EXCEPT ![r] = [@ EXCEPT !.kind = "start", !.user = u,
                         !.symbol = s, !.bot = user_bots[u],
                         !.settings = stored[u],
                         !.pc = IF InMap(u) THEN "stop_sync" ELSE "create"]]
          /\ running' = r
  /\ UNCHANGED <<regVars, exVars, nextInst, inst, conn, task, inactive_users, hist>>

\* lines 30-31: existing_bot.stop() returned, the old entry is discarded
StartDiscardOld(r) ==
  LET u == proc[r].user IN
  /\ running = r
  /\ proc[r].kind = "start"
  /\ proc[r].pc = "stop_ret"
  /\ IF InMap(u)
     THEN /\ user_bots' = MapDel(u)
          /\ ub_order' = OrderDel(u)
          /\ proc' = [proc EXCEPT ![r].pc = "create"]
          /\ hist' = StopReturned(proc[r].bot)
          /\ UNCHANGED running
     ELSE \* KeyError, caught at line 82
          /\ proc' = [proc EXCEPT ![r] = [@ EXCEPT !.pc = "done", !.result = "False",
                                             !.cause = "key_error"]]
          /\ hist' = [StopReturned(proc[r].bot) EXCEPT !.keyErrors[r] = @ + 1]
          /\ running' = Idle
          /\ UNCHANGED <<user_bots, ub_order>>
  /\ UNCHANGED <<dbStatus, exVars, nextInst, inst, conn, task, nextReq, inactive_users>>

\* lines 54-65 and UserBotInstance.start lines 61-79: a new instance is built
\* and started, up to the suspension in binance_client.initialize()
CreateAndStart(r) ==
  LET i == nextInst IN
  /\ running = r
  /\ proc[r].pc = "create"
  /\ nextInst' = nextInst + 1
  /\ inst' = [inst EXCEPT ![i] =
                 [WithSettings(NewInstance, proc[r].settings)
                    EXCEPT !.owner = proc[r].user,
                           !.current_symbol = Upper(proc[r].symbol),
                           !.stop_requested = FALSE, !.binance_client = "client"]]
  /\ proc' = [proc EXCEPT ![r].bot = i, ![r].pc = "init_wait"]
  /\ running' = Idle
  /\ UNCHANGED <<regVars, exVars, conn, task, nextReq, inactive_users, hist>>

\* ------------------------------------------------ UserBotInstance.start
\* (mutant) a failed start that returns without _cleanup
StartFailsNoCleanup(r, why, connected) ==
  /\ proc' = [proc EXCEPT ![r] = [@ EXCEPT !.pc = "done", !.result = "False",
                                     !.cause = why]]
  /\ UNCHANGED inst

\* What start() does when a step fails with `why` (lines 117-119): the
\* exception is printed, _cleanup runs, and start returns None; start_user_bot
\* then returns False (lines 78-80).  With a connection open _cleanup suspends in
\* close_connection; without one it completes at once.
StartFails(r, why, connected) ==
  LET i == proc[r].bot IN
  IF connected
  THEN /\ proc' = [proc EXCEPT ![r].pc = "fail_close_wait", ![r].cause = why]
       /\ UNCHANGED inst
  ELSE /\ proc' = [proc EXCEPT ![r] = [@ EXCEPT !.pc = "done", !.result = "False",
                                          !.cause = why]]
       /\ inst' = [inst EXCEPT ![i] = CleanedUp([@ EXCEPT !.binance_client = None])]

InitOutcomes == {"ok", "create_failed", "info_failed"}

\* lines 78-95: initialize() returned or raised; then the symbol lookup (no
\* suspension: it reads the cached exchange_info) up to set_leverage
InitReply(r, outcome) ==
  LET i == proc[r].bot IN
  /\ running = Idle
  /\ proc[r].pc = "init_wait"
  /\ conn' = [conn EXCEPT ![i] = IF outcome = "create_failed" THEN None ELSE "open"]
  /\ CASE outcome = "create_failed" -> StartFails(r, "exchange_unavailable", FALSE)
       [] outcome = "info_failed" -> StartFails(r, "exchange_unavailable", TRUE)
       [] outcome = "ok" /\ inst[i].current_symbol \notin ExchangeSymbols ->
            StartFails(r, "symbol_not_found", TRUE)
       [] OTHER -> /\ proc' = [proc EXCEPT ![r].pc = "lev_wait"]
                   /\ inst' = [inst EXCEPT ![i].quantity_precision =
                                               LotSizeDecimals[inst[i].current_symbol]]
  /\ UNCHANGED <<regVars, exVars, nextInst, task, running, nextReq, inactive_users, hist>>

\* lines 95-104: set_leverage returned True or False
LevReply(r, ok) ==
  /\ running = Idle
  /\ proc[r].pc = "lev_wait"
  /\ IF ok
     THEN /\ proc' = [proc EXCEPT ![r].pc = "hist_wait"]
          /\ UNCHANGED inst
     ELSE StartFails(r, "insufficient_permission", TRUE)
  /\ UNCHANGED <<regVars, exVars, nextInst, conn, task, running, nextReq,
                 inactive_users, hist>>

\* start_user_bot lines 66-77, after start() returned True
Register(r) ==
  LET u == proc[r].user
      i == proc[r].bot IN
  /\ user_bots' = MapSet(u, i)
  /\ ub_order' = OrderSet(u)
  /\ dbStatus' = Persist(u, "running")
  /\ hist' = [hist EXCEPT !.runningWrites[i] = @ + 1]
  /\ proc' = [proc EXCEPT ![r] = [@ EXCEPT !.pc = "done", !.result = "True"]]

\* lines 100-115: the historical candles arrived (or none did); on success the
\* stream task is created and the instance is active, and start_user_bot
\* registers it without suspending in between
HistReply(r, nonempty) ==
  LET i == proc[r].bot IN
  /\ running = Idle
  /\ proc[r].pc = "hist_wait"
  /\ IF nonempty
     THEN /\ task' = [task EXCEPT ![i] = [NewTask EXCEPT !.state = "live", !.pc = "start"]]
          /\ inst' = [inst EXCEPT ![i].websocket_task = "task", ![i].is_active = TRUE]
          /\ Register(r)
     ELSE /\ StartFails(r, "no_historical_data", TRUE)
          /\ UNCHANGED <<regVars, task, hist>>
  /\ UNCHANGED <<exVars, nextInst, conn, running, nextReq, inactive_users>>

\* _cleanup of a failed start: close_connection returned; start returns None and
\* start_user_bot returns False
FailCloseDone(r) ==
  LET i == proc[r].bot IN
  /\ running = Idle
  /\ proc[r].pc = "fail_close_wait"
  /\ conn' = [conn EXCEPT ![i] = None]
  /\ inst' = [inst EXCEPT ![i] = CleanedUp([@ EXCEPT !.binance_client = None])]
  /\ proc' = [proc EXCEPT ![r] = [@ EXCEPT !.pc = "done", !.result = "False"]]
  /\ UNCHANGED <<regVars, exVars, nextInst, task, running, nextReq, inactive_users, hist>>

\* ------------------------------------------------ BotManager.stop_user_bot
\* lines 88-94
StopUserBot(r, u) ==
  /\ running = Idle
  /\ r = nextReq
  /\ nextReq' = nextReq + 1
  /\ IF InMap(u)
     THEN /\ proc' = [proc EXCEPT ![r] = [@ EXCEPT !.kind = "stop", !.user = u,
                         !.bot = user_bots[u], !.pc = "stop_sync"]]
          /\ running' = r
     ELSE /\ proc' = [proc EXCEPT ![r] = [@ EXCEPT !.kind = "stop", !.user = u,
                         !.pc = "done", !.result = "False", !.cause = "not_found"]]
          /\ UNCHANGED running
  /\ UNCHANGED <<regVars, exVars, nextInst, inst, conn, task, inactive_users, hist>>

\* lines 95-109: stop() returned; delete the key, persist "stopped", return True;
\* a KeyError is caught at line 107 and the request returns False
StopUserBotFinish(r) ==
  LET u == proc[r].user
      i == proc[r].bot IN
  /\ running = r
  /\ proc[r].kind = "stop"
  /\ proc[r].pc = "stop_ret"
  /\ IF InMap(u)
     THEN /\ user_bots' = MapDel(u)
          /\ ub_order' = OrderDel(u)
          /\ dbStatus' = Persist(u, "stopped")
          /\ hist' = [StopReturned(i) EXCEPT !.stoppedWrites[i] = @ + 1]
          /\ proc' = [proc EXCEPT ![r] = [@ EXCEPT !.pc = "done", !.result = "True"]]
     ELSE /\ hist' = [StopReturned(i) EXCEPT !.keyErrors[r] = @ + 1]
          /\ proc' = [proc EXCEPT ![r] = [@ EXCEPT !.pc = "done", !.result = "False",
                                             !.cause = "key_error"]]
          /\ UNCHANGED regVars
  /\ running' = Idle
  /\ UNCHANGED <<exVars, nextInst, inst, conn, task, nextReq, inactive_users>>

\* ------------------------------------------------ stop() called directly
\* An instance as __init__ (lines 32-54) or a completed stop() leaves it: not
\* active, no stream task, no gateway client.
NotStarted(i) ==
  /\ ~inst[i].is_active
  /\ inst[i].websocket_task = None
  /\ inst[i].binance_client = None
  /\ task[i].state # "live"

\* A caller other than the registry invokes stop() (line 121) on an instance
\* that is not started: one constructed and never started (i = nextInst) or one
\* that was stopped before.
CallStop(r, u, i) ==
  /\ running = Idle
  /\ r = nextReq
  /\ nextReq' = nextReq + 1
  /\ i <= nextInst
  /\ NotStarted(i)
  /\ inst[i].owner \in {None, u}
  /\ nextInst' = IF i = nextInst THEN nextInst + 1 ELSE nextInst
  /\ inst' = [inst EXCEPT ![i].owner = u]
  /\ proc' = [proc EXCEPT ![r] = [@ EXCEPT !.kind = "call_stop", !.user = u,
                                     !.bot = i, !.pc = "stop_sync"]]
  /\ running' = r
  /\ UNCHANGED <<regVars, exVars, conn, task, inactive_users, hist>>

\* lines 137-141: stop() returns None to that caller
CallStopReturn(r) ==
  /\ running = r
  /\ proc[r].kind = "call_stop"
  /\ proc[r].pc = "stop_ret"
  /\ proc' = [proc EXCEPT ![r].pc = "done"]
  /\ hist' = StopReturned(proc[r].bot)
  /\ running' = Idle
  /\ UNCHANGED <<regVars, exVars, nextInst, inst, conn, task, nextReq, inactive_users>>

\* ------------------------------------------------ cleanup_inactive_bots
\* lines 156-160: the scan, when the sleep of line 178 is over
InactiveUsers == SelectSeq(ub_order, LAMBDA u : ~IsRunning(user_bots[u]))

SweepScan ==
  /\ running = Idle
  /\ proc[Sweep].pc = "sleep"
  /\ inactive_users' = InactiveUsers
  /\ proc' = [proc EXCEPT ![Sweep].pc = "sweep_loop"]
  /\ running' = Sweep
  /\ UNCHANGED <<regVars, exVars, nextInst, inst, conn, task, nextReq, hist>>

\* (mutant) a KeyError at line 166 ends the pass
SweepLoopEndsAtError ==
  /\ running = Sweep
  /\ proc[Sweep].pc = "sweep_loop"
  /\ IF inactive_users = <<>> \/ ~InMap(Head(inactive_users))
     THEN /\ proc' = [proc EXCEPT ![Sweep] = [@ EXCEPT !.pc = "sleep", !.user = None,
                                                 !.bot = NoInst]]
          /\ running' = Idle
          /\ UNCHANGED <<inactive_users, hist>>
     ELSE LET u == Head(inactive_users) IN
          /\ inactive_users' = Tail(inactive_users)
          /\ proc' = [proc EXCEPT ![Sweep] = [@ EXCEPT !.user = u,
                         !.bot = user_bots[u], !.pc = "stop_sync"]]
          /\ hist' = [hist EXCEPT !.swept[user_bots[u]] = TRUE]
          /\ UNCHANGED running
  /\ UNCHANGED <<regVars, exVars, nextInst, inst, conn, task, nextReq>>

\* lines 163-166 and 178: the next inactive tenant, or the sleep
SweepLoop ==
  /\ running = Sweep
  /\ proc[Sweep].pc = "sweep_loop"
  /\ IF inactive_users = <<>>
     THEN /\ proc' = [proc EXCEPT ![Sweep] = [@ EXCEPT !.pc = "sleep", !.user = None,
                                                 !.bot = NoInst]]
          /\ running' = Idle
          /\ UNCHANGED <<inactive_users, hist>>
     ELSE LET u == Head(inactive_users) IN
          /\ inactive_users' = Tail(inactive_users)
          /\ IF InMap(u)
             THEN /\ proc' = [proc EXCEPT ![Sweep] = [@ EXCEPT !.user = u,
                                 !.bot = user_bots[u], !.pc = "stop_sync"]]
                  /\ hist' = [hist EXCEPT !.swept[user_bots[u]] = TRUE]
             ELSE \* KeyError at line 166, caught at line 174
                  /\ hist' = [hist EXCEPT !.keyErrors[Sweep] = @ + 1]
                  /\ UNCHANGED proc
          /\ UNCHANGED running
  /\ UNCHANGED <<regVars, exVars, nextInst, inst, conn, task, nextReq>>

\* lines 167-175: stop() returned; delete the key and persist "stopped"; a
\* KeyError is caught at line 174 and the loop goes on
SweepEvict ==
  LET u == proc[Sweep].user
      i == proc[Sweep].bot IN
  /\ running = Sweep
  /\ proc[Sweep].pc = "stop_ret"
  /\ IF InMap(u)
     THEN /\ user_bots' = MapDel(u)
          /\ ub_order' = OrderDel(u)
          /\ dbStatus' = Persist(u, "stopped")
          /\ hist' = [StopReturned(i) EXCEPT !.stoppedWrites[i] = @ + 1]
     ELSE /\ hist' = [StopReturned(i) EXCEPT !.keyErrors[Sweep] = @ + 1]
          /\ UNCHANGED regVars
  /\ proc' = [proc EXCEPT ![Sweep].pc = "sweep_loop"]
  /\ UNCHANGED <<exVars, nextInst, inst, conn, task, running, nextReq, inactive_users>>

\* ------------------------------------------------ stop_all_bots
\* line 138: list(self.user_bots.items()), in insertion order
Items == [k \in 1..Len(ub_order) |-> <<ub_order[k], user_bots[ub_order[k]]>>]

\* lifespan calls stop_all_bots (main.py line 49); lines 136-138
StopAllBots(r) ==
  /\ running = Idle
  /\ r = nextReq
  /\ nextReq' = nextReq + 1
  /\ items' = Items
  /\ proc' = [proc EXCEPT ![r] = [@ EXCEPT !.kind = "stop_all", !.pc = "all_loop"]]
  /\ running' = r
  /\ UNCHANGED <<regVars, exVars, nextInst, inst, conn, task, inactive_users, hist>>

\* (mutant) the loop ends after its first entry
StopAllLoopOnce(r) ==
  /\ running = r
  /\ proc[r].kind = "stop_all"
  /\ proc[r].pc = "all_loop"
  /\ IF items = <<>> \/ hist.stopReturned[items[1][2]]
     THEN /\ user_bots' = [u \in Users |-> NoInst]
          /\ ub_order' = <<>>
          /\ proc' = [proc EXCEPT ![r] = [@ EXCEPT !.pc = "done", !.result = "None",
                                             !.user = None, !.bot = NoInst]]
          /\ running' = Idle
          /\ UNCHANGED items
     ELSE /\ proc' = [proc EXCEPT ![r] = [@ EXCEPT !.user = items[1][1],
                         !.bot = items[1][2], !.pc = "stop_sync"]]
          /\ UNCHANGED <<user_bots, ub_order, running, items>>
  /\ UNCHANGED <<dbStatus, exVars, nextInst, inst, conn, task, nextReq,
                 inactive_users, hist>>

\* lines 138-140 and 149: the next entry of the list is stopped, or the map is
\* cleared and stop_all_bots returns
StopAllLoop(r) ==
  /\ running = r
  /\ proc[r].kind = "stop_all"
  /\ proc[r].pc = "all_loop"
  /\ IF items = <<>>
     THEN /\ user_bots' = [u \in Users |-> NoInst]
          /\ ub_order' = <<>>
          /\ proc' = [proc EXCEPT ![r] = [@ EXCEPT !.pc = "done", !.result = "None",
                                             !.user = None, !.bot = NoInst]]
          /\ running' = Idle
          /\ UNCHANGED items
     ELSE /\ proc' = [proc EXCEPT ![r] = [@ EXCEPT !.user = Head(items)[1],
                         !.bot = Head(items)[2], !.pc = "stop_sync"]]
          /\ items' = Tail(items)
          /\ UNCHANGED <<user_bots, ub_order, running>>
  /\ UNCHANGED <<dbStatus, exVars, nextInst, inst, conn, task, nextReq,
                 inactive_users, hist>>

\* lines 140-147: stop() returned; update_user writes "stopped", or fails and
\* returns False (database.py lines 139-141)
StopAllPersist(r, written) ==
  LET u == proc[r].user
      i == proc[r].bot IN
  /\ running = r
  /\ proc[r].kind = "stop_all"
  /\ proc[r].pc = "stop_ret"
  /\ dbStatus' = IF written THEN Persist(u, "stopped") ELSE dbStatus
  /\ hist' = IF written THEN [StopReturned(i) EXCEPT !.stoppedWrites[i] = @ + 1]
             ELSE StopReturned(i)
  /\ proc' = [proc EXCEPT ![r].pc = "all_loop"]
  /\ UNCHANGED <<user_bots, ub_order, exVars, nextInst, inst, conn, task, running,
                 nextReq, inactive_users, items>>

\* ------------------------------------------------ numbers
\* Python computes quantities and averages in binary floating point; here they
\* are exact fractions [n, d] with d > 0, in lowest terms.
RECURSIVE GCD(_, _)
GCD(a, b) == IF b = 0 THEN a ELSE GCD(b, a % b)

Abs(x) == IF x < 0 THEN -x ELSE x

Frac(n, d) == LET g == GCD(Abs(n), d) IN [n |-> n \div g, d |-> d \div g]

FAdd(a, b) == Frac(a.n * b.d + b.n * a.d, a.d * b.d)
FMul(a, b) == Frac(a.n * b.n, a.d * b.d)
FLess(a, b) == a.n * b.d < b.n * a.d

\* ------------------------------------------------ the exchange
Signals == {"HOLD", "LONG", "SHORT"}
Replies == {"ok", "api_error"}        \* api_error: BinanceAPIException

\* a filled MARKET order of the bot's size in one-way mode
Net(pos, side) ==
  IF side = "BUY" THEN (IF pos = "SHORT" THEN "FLAT" ELSE "LONG")
                  ELSE (IF pos = "LONG" THEN "FLAT" ELSE "SHORT")

\* _execute_trade line 251
OrderSide(signal) == IF signal = "LONG" THEN "BUY" ELSE "SELL"

\* the resting stop order triggers and flattens the position
ExStopFires(u) ==
  /\ running = Idle
  /\ exStop[u]
  /\ exPos[u] # "FLAT"
  /\ exPos' = [exPos EXCEPT ![u] = "FLAT"]
  /\ exStop' = [exStop EXCEPT ![u] = FALSE]
  /\ UNCHANGED <<regVars, ledger, stats, nextInst, inst, conn, task, proc, running, nextReq,
                 inactive_users, hist>>

\* ------------------------------------------------ _websocket_handler
Runs(i) == running = Idle /\ task[i].state = "live" /\ ~task[i].must_cancel

At(i, where) == Runs(i) /\ task[i].pc = where

Goto(t, where) ==
  [t EXCEPT !.pc = where, !.state = IF where = "done" THEN "done" ELSE @]

\* line 157: `while not self.stop_requested`
LoopHead(i) == IF inst[i].stop_requested THEN "done" ELSE "connecting"

\* line 164 after a message was handled or abandoned: the inner loop goes on,
\* or both loops end
AfterMessage(i) == IF inst[i].stop_requested THEN "done" ELSE "recv"

\* (mutant) an exception ends the outer loop
AfterErrorBreaks(i) == "done"

\* lines 176-181: an exception reached the outer handler
AfterError(i) == IF inst[i].stop_requested THEN "done" ELSE "backoff"

\* the task runs for the first time
WsRun(i) ==
  /\ At(i, "start")
  /\ task' = [task EXCEPT ![i] = Goto(@, LoopHead(i))]
  /\ UNCHANGED <<regVars, exVars, nextInst, inst, conn, proc, running, nextReq,
                 inactive_users, hist>>

\* line 161: websockets.connect returned or raised
WsConnectReply(i, ok) ==
  /\ At(i, "connecting")
  /\ task' = [task EXCEPT ![i] = Goto(@, IF ok THEN AfterMessage(i) ELSE AfterError(i))]
  /\ UNCHANGED <<regVars, exVars, nextInst, inst, conn, proc, running, nextReq,
                 inactive_users, hist>>

\* line 179: the sleep before reconnecting is over
WsBackoffDone(i) ==
  /\ At(i, "backoff")
  /\ task' = [task EXCEPT ![i] = Goto(@, LoopHead(i))]
  /\ UNCHANGED <<regVars, exVars, nextInst, inst, conn, proc, running, nextReq,
                 inactive_users, hist>>

\* lines 166-167, 189-190: a message whose candle is not closed
WsRecvOpenCandle(i) ==
  /\ At(i, "recv")
  /\ task' = [task EXCEPT ![i] = Goto(@, AfterMessage(i))]
  /\ UNCHANGED <<regVars, exVars, nextInst, inst, conn, proc, running, nextReq,
                 inactive_users, hist>>

\* lines 169-174: idle timeout or closed connection: leave the inner loop;
\* lines 176-179: any other exception of recv
WsRecvDrop(i, what) ==
  /\ At(i, "recv")
  /\ task' = [task EXCEPT ![i] =
                Goto(@, IF what = "error" THEN AfterError(i) ELSE LoopHead(i))]
  /\ UNCHANGED <<regVars, exVars, nextInst, inst, conn, proc, running, nextReq,
                 inactive_users, hist>>

\* lines 186-204: a closed candle; the window is updated (s is the signal the
\* updated window gives) and the open positions are requested
WsRecvClosedCandle(i, s) ==
  /\ At(i, "recv")
  /\ task[i].candles < MaxCandles
  /\ task' = [task EXCEPT ![i] = [Goto(@, "h_pos_wait") EXCEPT !.sig = s,
                                     !.candles = @ + 1, !.price = NoPrice,
                                     !.current_price = NoPrice]]
  /\ UNCHANGED <<regVars, exVars, nextInst, inst, conn, proc, running, nextReq,
                 inactive_users, hist>>

\* ------------------------------------------------ _handle_websocket_message
\* what get_open_positions returns: the position, or [] on BinanceAPIException
\* (binance_client_multi.py lines 47-52)
OpenPositions(u, rep) == IF rep = "ok" THEN exPos[u] ELSE "FLAT"

\* (mutant) only the side is cleared
ClearedSideOnly(r) == [r EXCEPT !.position_side = None]

\* lines 210-214 and 317-321: the position state is cleared
ClearedPosition(r) ==
  [r EXCEPT !.position_side = None, !.current_trade_id = NoTradeId,
            !.entry_price = NoPrice, !.entry_time = None,
            !.position_quantity = NoQuantity]

\* 10 ** n
RECURSIVE Pow10(_)
Pow10(n) == IF n = 0 THEN 1 ELSE 10 * Pow10(n - 1)

\* a quantity left as it is
NotFloored(q) == q

\* math.floor of a fraction, as a fraction
Floor(q) == Frac(q.n \div q.d, 1)

\* UserBotInstance._format_quantity
_format_quantity(quantity, quantity_precision) ==
  IF quantity_precision = 0
  THEN Floor(quantity)
  ELSE LET factor == Frac(Pow10(quantity_precision), 1)
       IN FMul(Floor(FMul(quantity, factor)), Frac(1, factor.n))

\* line 258
OrderQuantity(price, quantity_precision) ==
  _format_quantity(Frac(order_size_usdt * leverage, price), quantity_precision)

\* lines 329 and 358: f"{user_id}_{int(timestamp)}"; the ids an instance makes
\* are at least a second apart (one per closed candle, and the settle delay of
\* line 248 between a closure and an opening), so each is new
NewTradeId(u) == Len(ledger[u]) + 1

\* lines 270-273 and 329: the position state of a new position
RecordedPosition(r, side, price) ==
  [r EXCEPT !.position_side = side, !.current_trade_id = NewTradeId(r.owner),
            !.entry_price = price, !.entry_time = "now",
            !.position_quantity = OrderQuantity(price, r.quantity_precision)]

\* lines 220-228: the signal is stored and a flip is started when it differs
\* from the position side; cleared: the caller has just cleared the position
SignalSection(i, cleared, t) ==
  LET r == IF cleared THEN ClearedPosition(inst[i]) ELSE inst[i] IN
  /\ inst' = [inst EXCEPT ![i] = [r EXCEPT !.last_signal = t.sig]]
  /\ task' = [task EXCEPT ![i] =
                Goto(t, IF t.sig # "HOLD" /\ t.sig # r.position_side
                        THEN "x_pos_wait" ELSE AfterMessage(i))]

\* ------------------------------------------------ database.py
\* log_trade line 255: the record is written under trades/<uid>/<trade_id>
Logged(u, rec) == [ledger EXCEPT ![u] = Append(@, rec)]

\* (mutant) the statistics are updated for every record
StatsForEveryRecord(user, trade_data) ==
  IF ~user.present THEN user
  ELSE [user EXCEPT !.total_trades = @ + 1,
                    !.total_pnl = @ + trade_data.pnl,
                    !.winning_trades = IF trade_data.pnl > 0 THEN @ + 1 ELSE @,
                    !.losing_trades = IF trade_data.pnl > 0 THEN @ ELSE @ + 1]

\* _update_user_stats lines 266-289: nothing when get_user gives no user,
\* nothing for a record that is not CLOSED
_update_user_stats(user, trade_data) ==
  IF ~user.present THEN user
  ELSE IF trade_data.status = "CLOSED"
  THEN [user EXCEPT !.total_trades = @ + 1,
                    !.total_pnl = @ + trade_data.pnl,
                    !.winning_trades = IF trade_data.pnl > 0 THEN @ + 1 ELSE @,
                    !.losing_trades = IF trade_data.pnl > 0 THEN @ ELSE @ + 1]
  ELSE user

\* log_trade lines 244-264: returns at once when the database is not ready;
\* else the record is written and the statistics are updated
log_trade(u, trade_data, ready) ==
  IF ready
  THEN /\ ledger' = Logged(u, trade_data)
       /\ stats' = [stats EXCEPT ![u] = _update_user_stats(@, trade_data)]
  ELSE UNCHANGED <<ledger, stats>>

\* line 353 as the trading steps see it: get_last_trade_pnl found no trades
\* (binance_client_multi.py line 151)
NoTradesPnl == 0

\* _log_trade_opening lines 329-342: the TradeData of an opening
OpenRecord(i, side) ==
  [ status |-> "OPEN", reason |-> "", inst |-> i, side |-> side,
    trade_id |-> NewTradeId(inst[i].owner), pnl |-> 0 ]

\* _log_trade_closure lines 357-370: the TradeData of a closure
ClosedRecord(i, close_reason, pnl) ==
  [ status |-> "CLOSED", reason |-> close_reason, inst |-> i,
    side |-> IF inst[i].position_side = None THEN "UNKNOWN"
             ELSE inst[i].position_side,
    trade_id |-> IF inst[i].current_trade_id = NoTradeId
                 THEN NewTradeId(inst[i].owner) ELSE inst[i].current_trade_id,
    pnl |-> pnl ]

\* what get_last_trade_pnl may return
Pnls == {-3, 0, 5}

\* _log_trade_opening (lines 326-348) called on instance i: the trade id is
\* made and kept, the OPEN record is handed to log_trade
LogTradeOpening(i, side, ready) ==
  LET u == inst[i].owner IN
  /\ running = Idle
  /\ Len(ledger[u]) < MaxTrades
  /\ inst' = [inst EXCEPT ![i].current_trade_id = NewTradeId(u)]
  /\ log_trade(u, OpenRecord(i, side), ready)
  /\ UNCHANGED <<regVars, exPos, exStop, nextInst, conn, task, proc, running, nextReq,
                 inactive_users, hist, sigVars>>

\* _log_trade_closure (lines 350-376) called on instance i with the pnl the
\* exchange reported: the CLOSED record is handed to log_trade
LogTradeClosure(i, close_reason, pnl, ready) ==
  LET u == inst[i].owner IN
  /\ running = Idle
  /\ Len(ledger[u]) < MaxTrades
  /\ log_trade(u, ClosedRecord(i, close_reason, pnl), ready)
  /\ UNCHANGED <<regVars, exPos, exStop, nextInst, inst, conn, task, proc, running,
                 nextReq, inactive_users, hist, sigVars>>

\* delete_user lines 143-166 (DELETE /api/user/account, main.py 541-555): the
\* user document and the trades of the user are removed; the registry is not
\* told, a running instance goes on
DeleteUser(u) ==
  /\ running = Idle
  /\ stats[u].present
  /\ stats' = [stats EXCEPT ![u] = [NewStats EXCEPT !.present = FALSE]]
  /\ ledger' = [ledger EXCEPT ![u] = <<>>]
  /\ UNCHANGED <<regVars, exPos, exStop, nextInst, inst, conn, task, proc, running,
                 nextReq, inactive_users, hist, sigVars>>

\* lines 204-218: the open positions arrived
WsPosReply(i, rep) ==
  LET u == inst[i].owner
      open == OpenPositions(u, rep)
      ps == inst[i].position_side IN
  /\ At(i, "h_pos_wait")
  /\ IF ps # None /\ open = "FLAT"
     THEN /\ task' = [task EXCEPT ![i] = [Goto(@, "lc_pnl_wait") EXCEPT
                         !.lcReason = "CLOSED_BY_SL_OR_TP", !.lcRet = "ext"]]
          /\ UNCHANGED inst
     ELSE IF ps # None
     THEN /\ task' = [task EXCEPT ![i] = [Goto(@, "tp_price_wait") EXCEPT !.open_amt = open]]
          /\ UNCHANGED inst
     ELSE SignalSection(i, FALSE, task[i])
  /\ UNCHANGED <<regVars, exVars, nextInst, conn, proc, running, nextReq,
                 inactive_users, hist>>

\* _log_trade_closure line 353: get_last_trade_pnl returned
WsLcPnlReply(i) ==
  /\ At(i, "lc_pnl_wait")
  /\ task' = [task EXCEPT ![i] = Goto(@, "lc_price_wait")]
  /\ UNCHANGED <<regVars, exVars, nextInst, inst, conn, proc, running, nextReq,
                 inactive_users, hist>>

\* (mutant) the caller gives up when the record was not written
GoesOnIfWritten(written) == written

\* lines 344-348 and 372-376: what log_trade returns is not looked at and an
\* exception of it is caught, so the caller goes on either way
GoesOn(written) == TRUE

\* _log_trade_closure lines 354-373: the price arrived and the CLOSED record is
\* handed to log_trade, which writes it or fails (ready); then the caller goes
\* on: lines 210-214 and 317-321 clear the position, line 247 calls
\* close_position
WsLcPriceLogged(i, ready) ==
  LET u == inst[i].owner
      t == task[i]
      rec == ClosedRecord(i, t.lcReason, NoTradesPnl) IN
  /\ At(i, "lc_price_wait")
  /\ log_trade(u, rec, ready)
  /\ IF ~GoesOn(ready)
     THEN /\ task' = [task EXCEPT ![i] = Goto(@, AfterMessage(i))]
          /\ UNCHANGED <<inst, hist>>
     ELSE IF t.lcRet = "flip"
     THEN /\ task' = [task EXCEPT ![i] = [Goto(@, "cp_cancel_wait") EXCEPT !.cpRet = "flip"]]
          /\ hist' = [hist EXCEPT !.flip[i].closedLogged = @ + 1,
                                  !.flip[i].closeCalls = @ + 1]
          /\ UNCHANGED inst
     ELSE /\ SignalSection(i, TRUE, t)
          /\ UNCHANGED hist
  /\ UNCHANGED <<regVars, exPos, exStop, nextInst, conn, proc, running, nextReq,
                 inactive_users>>

\* the same with the store healthy
WsLcPriceReply(i) == WsLcPriceLogged(i, TRUE)

\* (mutant) the LONG formula for both sides
ProfitPercentOfLong(side, entry, cur) == ((cur - entry) * 100) \div entry

\* _check_take_profit lines 296-299, in whole percents rounded down (which
\* leaves the comparison with a whole take_profit_percent as it is)
ProfitPercent(side, entry, cur) ==
  IF side = "LONG" THEN ((cur - entry) * 100) \div entry
                   ELSE ((entry - cur) * 100) \div entry

\* _check_take_profit lines 291-311: the price cur arrived, or None did
WsTpPriceReply(i, rep, cur) ==
  LET t == [task[i] EXCEPT !.current_price = IF rep = "ok" THEN cur ELSE NoPrice] IN
  /\ At(i, "tp_price_wait")
  /\ IF /\ rep = "ok"
        /\ ProfitPercent(inst[i].position_side, inst[i].entry_price, cur)
             >= take_profit_percent
     THEN /\ task' = [task EXCEPT ![i] = [Goto(t, "cp_cancel_wait") EXCEPT !.cpRet = "tp"]]
          /\ UNCHANGED inst
     ELSE SignalSection(i, FALSE, t)
  /\ UNCHANGED <<regVars, exVars, nextInst, conn, proc, running, nextReq,
                 inactive_users, hist>>

\* ------------------------------------------------ close_position
\* close_position returned to line 314 (take profit) or line 248 (flip)
CpReturn(t) ==
  IF t.cpRet = "tp"
  THEN [Goto(t, "lc_pnl_wait") EXCEPT !.lcReason = "CLOSED_BY_TAKE_PROFIT", !.lcRet = "tp"]
  ELSE Goto(t, "x_settle")

\* binance_client_multi.py lines 117-118, 132-134
WsCpCancelReply(i, rep) ==
  LET u == inst[i].owner IN
  /\ At(i, "cp_cancel_wait")
  /\ IF rep = "ok"
     THEN /\ exStop' = [exStop EXCEPT ![u] = FALSE]
          /\ task' = [task EXCEPT ![i] = Goto(@, "cp_sleep")]
     ELSE /\ task' = [task EXCEPT ![i] = CpReturn(@)]
          /\ UNCHANGED exStop
  /\ UNCHANGED <<regVars, exPos, ledger, stats, nextInst, inst, conn, proc, running, nextReq,
                 inactive_users, hist>>

\* line 118: the sleep is over, the reduce-only order is sent (line 121)
WsCpSleepDone(i) ==
  /\ At(i, "cp_sleep")
  /\ task' = [task EXCEPT ![i] = Goto(@, "cp_order_wait")]
  /\ UNCHANGED <<regVars, exVars, nextInst, inst, conn, proc, running, nextReq,
                 inactive_users, hist>>

\* lines 121-134: the exchange fills the reduce-only order only against the
\* position it was computed from
WsCpOrderReply(i, rep) ==
  LET u == inst[i].owner IN
  /\ At(i, "cp_order_wait")
  /\ rep = "ok" => exPos[u] = task[i].open_amt
  /\ exPos' = IF rep = "ok" THEN [exPos EXCEPT ![u] = "FLAT"] ELSE exPos
  /\ task' = [task EXCEPT ![i] = CpReturn(@)]
  /\ UNCHANGED <<regVars, exStop, ledger, stats, nextInst, inst, conn, proc, running, nextReq,
                 inactive_users, hist>>

\* ------------------------------------------------ _execute_trade
\* lines 239-247: the open positions arrived
WsExecPosReply(i, rep) ==
  LET u == inst[i].owner
      open == OpenPositions(u, rep) IN
  /\ At(i, "x_pos_wait")
  /\ hist' = [hist EXCEPT !.flip[i] = [NoFlip EXCEPT !.hadPos = exPos[u] # "FLAT",
                                      !.held = inst[i].position_side # None]]
  /\ IF open # "FLAT"
     THEN task' = [task EXCEPT ![i] = [Goto(@, "lc_pnl_wait") EXCEPT
                      !.lcReason = "CLOSED_BY_FLIP", !.lcRet = "flip", !.open_amt = open]]
     ELSE task' = [task EXCEPT ![i] = Goto(@, "x_price_wait")]
  /\ UNCHANGED <<regVars, exVars, nextInst, inst, conn, proc, running, nextReq,
                 inactive_users>>

\* line 248: the settle delay is over, the price is requested (line 252)
WsSettleDone(i) ==
  /\ At(i, "x_settle")
  /\ task' = [task EXCEPT ![i] = Goto(@, "x_price_wait")]
  /\ UNCHANGED <<regVars, exVars, nextInst, inst, conn, proc, running, nextReq,
                 inactive_users, hist>>

\* lines 252-267: the price arrived; the order is sent when the quantity the
\* price gives is positive
WsExecPriceReply(i, rep, price) ==
  LET quantity == OrderQuantity(price, inst[i].quantity_precision) IN
  /\ At(i, "x_price_wait")
  /\ IF rep # "ok"
     THEN task' = [task EXCEPT ![i] = Goto(@, AfterMessage(i))]
     ELSE IF quantity.n <= 0
     THEN task' = [task EXCEPT ![i] = [Goto(@, AfterMessage(i)) EXCEPT !.price = price]]
     ELSE task' = [task EXCEPT ![i] = [Goto(@, "b_entry_wait") EXCEPT
                      !.entry = "none", !.stop = "none", !.price = price]]
  /\ UNCHANGED <<regVars, exVars, nextInst, inst, conn, proc, running, nextReq,
                 inactive_users, hist>>

\* ------------------------------------------------ create_market_order_with_sl
\* lines 63-73 and 96-106: the exchange answered the MARKET order; a rejection
\* is raised to _execute_trade, which prints it (line 283)
WsEntryReply(i, rep) ==
  LET u == inst[i].owner IN
  /\ At(i, "b_entry_wait")
  /\ IF rep = "ok"
     THEN /\ exPos' = [exPos EXCEPT ![u] = Net(@, OrderSide(task[i].sig))]
          /\ task' = [task EXCEPT ![i] = [Goto(@, "b_sleep") EXCEPT !.entry = "accepted"]]
     ELSE /\ task' = [task EXCEPT ![i] = [Goto(@, AfterMessage(i)) EXCEPT
                         !.entry = "rejected"]]
          /\ UNCHANGED exPos
  /\ UNCHANGED <<regVars, exStop, ledger, stats, nextInst, inst, conn, proc, running, nextReq,
                 inactive_users, hist>>

\* line 73: the sleep is over, the STOP_MARKET order is sent (line 85)
WsBracketSleepDone(i) ==
  /\ At(i, "b_sleep")
  /\ task' = [task EXCEPT ![i] = Goto(@, "b_sl_wait")]
  /\ UNCHANGED <<regVars, exVars, nextInst, inst, conn, proc, running, nextReq,
                 inactive_users, hist>>

\* (mutant) the failure of the stop order is swallowed, main_order is returned
BracketIgnoresStop(entry, stop) == entry = "accepted"

\* lines 94-106: main_order is returned when neither order raised
BracketReturnsOrder(entry, stop) == entry = "accepted" /\ stop = "accepted"

\* lines 85-94 and 269-283: the exchange answered the STOP_MARKET order; with
\* the order returned the position is recorded (lines 270-273, 329) and the
\* OPEN record is handed to log_trade, which writes it or fails (ready)
WsStopLegLogged(i, rep, ready) ==
  LET u == inst[i].owner
      t == task[i]
      stop == IF rep = "ok" THEN "accepted" ELSE "rejected"
      rec == OpenRecord(i, t.sig) IN
  /\ At(i, "b_sl_wait")
  /\ exStop' = IF rep = "ok" THEN [exStop EXCEPT ![u] = TRUE] ELSE exStop
  /\ task' = [task EXCEPT ![i] = [Goto(@, AfterMessage(i)) EXCEPT !.stop = stop]]
  /\ IF BracketReturnsOrder(t.entry, stop)
     THEN /\ inst' = [inst EXCEPT ![i] = RecordedPosition(@, t.sig, t.price)]
          /\ log_trade(u, rec, ready)
          /\ hist' = [hist EXCEPT !.flip[i].opened = TRUE]
     ELSE UNCHANGED <<inst, ledger, stats, hist>>
  /\ UNCHANGED <<regVars, exPos, nextInst, conn, proc, running, nextReq, inactive_users>>

\* the same with the store healthy
WsStopLegReply(i, rep) == WsStopLegLogged(i, rep, TRUE)

\* ------------------------------------------------ cancellation
\* Task.cancel() of stop() line 131: CancelledError is raised at the await the
\* task is suspended in; no handler of the task catches it, the task ends.  A
\* request already sent to the exchange may or may not have landed.
WsCancelled(i, landed) ==
  LET u == inst[i].owner
      t == task[i] IN
  /\ running = Idle
  /\ t.state = "live"
  /\ t.must_cancel
  /\ task' = [task EXCEPT ![i] = Goto(@, "done")]
  /\ exPos' = IF landed /\ t.pc = "b_entry_wait"
                THEN [exPos EXCEPT ![u] = Net(@, OrderSide(t.sig))]
              ELSE IF landed /\ t.pc = "cp_order_wait" /\ exPos[u] = t.open_amt
                THEN [exPos EXCEPT ![u] = "FLAT"]
              ELSE exPos
  /\ exStop' = IF landed /\ t.pc = "b_sl_wait" THEN [exStop EXCEPT ![u] = TRUE]
               ELSE IF landed /\ t.pc = "cp_cancel_wait" THEN [exStop EXCEPT ![u] = FALSE]
               ELSE exStop
  /\ UNCHANGED <<regVars, ledger, stats, nextInst, inst, conn, proc, running, nextReq,
                 inactive_users, hist>>

\* line 166: asyncio.wait_for, up to Python 3.11, returns the result of
\* ws.recv() and drops the cancellation when the message had already arrived
\* at the time of Task.cancel(); the closed candle is then handled (lines
\* 186-204) and the loops end at line 164 because stop_requested is set
WsCancelSwallowed(i, s) ==
  /\ running = Idle
  /\ task[i].state = "live"
  /\ task[i].must_cancel
  /\ task[i].pc = "recv"
  /\ task[i].candles < MaxCandles
  /\ task' = [task EXCEPT ![i] = [Goto(@, "h_pos_wait") EXCEPT !.sig = s,
                                     !.candles = @ + 1, !.must_cancel = FALSE,
                                     !.price = NoPrice, !.current_price = NoPrice]]
  /\ UNCHANGED <<regVars, exVars, nextInst, inst, conn, proc, running, nextReq,
                 inactive_users, hist>>

\* ------------------------------------------------ trading_strategy.py
RECURSIVE Sum(_)
Sum(seq) == IF seq = <<>> THEN 0 ELSE Head(seq) + Sum(Tail(seq))

\* lines 51-53: the averages after the first, in order
RECURSIVE EmaFrom(_, _, _)
EmaFrom(prices, last, multiplier) ==
  IF prices = <<>> THEN <<>>
  ELSE LET ema == FAdd(FMul(Frac(Head(prices), 1), multiplier),
                       FMul(last, FAdd(Frac(1, 1), Frac(-multiplier.n, multiplier.d))))
       IN <<ema>> \o EmaFrom(Tail(prices), ema, multiplier)

\* TradingStrategy._calculate_ema
_calculate_ema(prices, period) ==
  IF Len(prices) < period
  THEN [k \in 1..Len(prices) |-> Frac(prices[k], 1)]
  ELSE LET multiplier == Frac(2, period + 1)
           sma == Frac(Sum(SubSeq(prices, 1, period)), period)
           ema_values == <<sma>> \o EmaFrom(SubSeq(prices, period + 1, Len(prices)),
                                            sma, multiplier)
       IN [k \in 1..(period - 1) |-> sma] \o ema_values

\* TradingStrategy.analyze_klines
analyze_klines(closes) ==
  IF Len(closes) < long_ema_period THEN "HOLD"
  ELSE LET short_ema == _calculate_ema(closes, short_ema_period)
           long_ema == _calculate_ema(closes, long_ema_period)
           current_short == short_ema[Len(short_ema)]
           current_long == long_ema[Len(long_ema)]
           prev_short == short_ema[Len(short_ema) - 1]
           prev_long == long_ema[Len(long_ema) - 1]
       IN IF FLess(prev_short, prev_long) /\ FLess(current_long, current_short)
          THEN "LONG"
          ELSE IF FLess(prev_long, prev_short) /\ FLess(current_short, current_long)
          THEN "SHORT"
          ELSE "HOLD"

\* a window of SeedCloses equal closes
SeedWindow == [k \in 1..SeedCloses |-> 100]

\* analyze_klines is applied to the window grown by one close.  (The running
\* instance keeps the length of its window, lines 196-197; here the window
\* grows so that every length up to MaxCloses is analysed.)
AnalyzeNext(close) ==
  /\ Len(klines) < MaxCloses
  /\ klines' = Append(klines, close)
  /\ result' = analyze_klines(klines')
  /\ UNCHANGED <<engineVars, stream, items, stored, rateVars>>

\* ------------------------------------------------ the candle window
\* a kline message: x is its closed flag, c its close
Messages == [x : BOOLEAN, c : Closes]

\* the windows get_historical_klines may leave in self.klines: one candle, or
\* MaxCloses equal candles
LoadedWindows == {<<100>>, [k \in 1..MaxCloses |-> 100]}

\* (mutant) the oldest candle stays
NotPopped(window) == window

\* line 196: self.klines.pop(0)
Popped(window) == Tail(window)

\* (mutant) the closed flag is not looked at
UpdatedAlways(window, data) == Append(Popped(window), data.c)

\* lines 186-201: self.klines after a message
Updated(window, data) ==
  IF ~data.x THEN window ELSE Append(Popped(window), data.c)

\* lines 183-221 without the exchange: the next message is taken; an open
\* candle returns at line 190, a closed one updates the window, which is then
\* analysed
HandleMessage ==
  /\ stream # <<>>
  /\ stream' = Tail(stream)
  /\ klines' = Updated(klines, Head(stream))
  /\ result' = IF Head(stream).x THEN analyze_klines(klines') ELSE result
  /\ UNCHANGED <<engineVars, items, stored, rateVars>>

\* ------------------------------------------------ specifications
Registry(tenants) ==
  \/ \E r \in Req, u \in tenants, s \in Symbols : StartUserBot(r, u, s)
  \/ \E r \in Req, u \in tenants : StopUserBot(r, u)
  \/ \E r \in Req : \/ StartDiscardOld(r)
                    \/ CreateAndStart(r)
                    \/ \E o \in InitOutcomes : InitReply(r, o)
                    \/ \E ok \in BOOLEAN : LevReply(r, ok)
                    \/ \E ok \in BOOLEAN : HistReply(r, ok)
                    \/ FailCloseDone(r)
                    \/ StopUserBotFinish(r)
  \/ \E p \in Proc : \/ StopSync(p)
                     \/ StopTaskJoined(p)
                     \/ Cleanup(p)
                     \/ CloseDone(p)
  \/ SweepScan
  \/ SweepLoop
  \/ SweepEvict

Stream ==
  \E i \in Inst :
    \/ WsRun(i)
    \/ \E ok \in BOOLEAN : WsConnectReply(i, ok)
    \/ WsBackoffDone(i)
    \/ WsRecvOpenCandle(i)
    \/ \E what \in {"timeout", "closed", "error"} : WsRecvDrop(i, what)
    \/ \E landed \in BOOLEAN : WsCancelled(i, landed)

Trading ==
  \/ \E u \in Users : ExStopFires(u)
  \/ \E i \in Inst :
       \/ \E s \in Signals : WsRecvClosedCandle(i, s)
       \/ \E s \in Signals : WsCancelSwallowed(i, s)
       \/ \E rep \in Replies : WsPosReply(i, rep)
       \/ WsLcPnlReply(i)
       \/ WsLcPriceReply(i)
       \/ \E rep \in Replies, cur \in Prices : WsTpPriceReply(i, rep, cur)
       \/ \E rep \in Replies : WsCpCancelReply(i, rep)
       \/ WsCpSleepDone(i)
       \/ \E rep \in Replies : WsCpOrderReply(i, rep)
       \/ \E rep \in Replies : WsExecPosReply(i, rep)
       \/ WsSettleDone(i)
       \/ \E rep \in Replies, price \in Prices : WsExecPriceReply(i, rep, price)
       \/ \E rep \in Replies : WsEntryReply(i, rep)
       \/ WsBracketSleepDone(i)
       \/ \E rep \in Replies : WsStopLegReply(i, rep)

Next == (Registry(Users) \/ Stream \/ Trading) /\ UNCHANGED sigVars

Spec == Init /\ [][Next]_vars

\* The registry under the requests of one tenant, with the stream tasks of its
\* instances; no closed candle arrives.
Tenant == "u1"

NextRegistry == (Registry({Tenant}) \/ Stream) /\ UNCHANGED sigVars

SpecRegistry == Init /\ [][NextRegistry]_vars

\* One tenant trading: its start and stop requests, its stream task, the exchange.
TradeRequests ==
  \/ StartUserBot(1, Tenant, "btcusdt")
  \/ StopUserBot(2, Tenant)
  \/ \E r \in Req : \/ CreateAndStart(r)
                    \/ InitReply(r, "ok")
                    \/ LevReply(r, TRUE)
                    \/ HistReply(r, TRUE)
                    \/ StopUserBotFinish(r)
  \/ \E p \in Req : \/ StopSync(p)
                    \/ StopTaskJoined(p)
                    \/ Cleanup(p)
                    \/ CloseDone(p)

NextInstance == (TradeRequests \/ Stream \/ Trading) /\ UNCHANGED sigVars

SpecInstance == Init /\ [][NextInstance]_vars

\* The instance's own interface: besides the registry's start and stop, a caller
\* that invokes stop() on an instance that is not started.
DirectCalls ==
  \E r \in Req : \/ \E i \in Inst : CallStop(r, Tenant, i)
                  \/ CallStopReturn(r)

NextLifecycle == (TradeRequests \/ Stream \/ DirectCalls) /\ UNCHANGED sigVars

SpecLifecycle == Init /\ [][NextLifecycle]_vars

\* The signal engine alone: a window of equal closes grows by one close at a
\* time and is analysed after each.
InitSignal ==
  /\ InitEngine
  /\ klines = SeedWindow /\ result = analyze_klines(SeedWindow)
  /\ stream = <<>> /\ items = <<>>
  /\ stored = [u \in Users |-> DefaultSettings]
  /\ InitLimiter

NextSignal == \E close \in Closes : AnalyzeNext(close)

SpecSignal == InitSignal /\ [][NextSignal]_vars

\* Two start requests of one tenant that may overlap, with healthy streams, up
\* to the arrival of a closed candle at each stream task.
TwoStarts ==
  \/ StartUserBot(1, Tenant, "btcusdt")
  \/ StartUserBot(2, Tenant, "btcusdt")
  \/ \E r \in Req : \/ CreateAndStart(r)
                    \/ InitReply(r, "ok")
                    \/ LevReply(r, TRUE)
                    \/ HistReply(r, TRUE)

Connected ==
  \E i \in Inst : \/ WsRun(i)
                   \/ WsConnectReply(i, TRUE)
                   \/ WsRecvOpenCandle(i)
                   \/ \E s \in Signals : WsRecvClosedCandle(i, s)

NextOverlap == (TwoStarts \/ Connected) /\ UNCHANGED sigVars

SpecOverlap == Init /\ [][NextOverlap]_vars

\* The candle window of one instance under the messages of its stream.
InitWindow ==
  /\ InitEngine
  /\ klines \in LoadedWindows
  /\ result = "HOLD"
  /\ stream \in [1..MaxMsgs -> Messages]
  /\ items = <<>>
  /\ stored = [u \in Users |-> DefaultSettings]
  /\ InitLimiter

NextWindow == HandleMessage

SpecWindow == InitWindow /\ [][NextWindow]_vars

\* Two tenants whose bots run, their stop requests and the sweep.
StartedInstance(u) ==
  [WithSettings(NewInstance, DefaultSettings) EXCEPT !.owner = u, !.is_active = TRUE, !.current_symbol = "BTCUSDT",
                      !.quantity_precision = LotSizeDecimals["BTCUSDT"],
                      !.binance_client = "client", !.websocket_task = "task"]

InitTwoRunning ==
  /\ user_bots = [u \in Users |-> IF u = "u1" THEN 1 ELSE 2]
  /\ ub_order = <<"u1", "u2">>
  /\ dbStatus = [u \in Users |-> "running"]
  /\ nextInst = 3
  /\ inst = [i \in Inst |-> IF i = 1 THEN StartedInstance("u1")
                           ELSE IF i = 2 THEN StartedInstance("u2") ELSE NewInstance]
  /\ conn = [i \in Inst |-> IF i \in {1, 2} THEN "open" ELSE None]
  /\ task = [i \in Inst |-> IF i \in {1, 2}
                           THEN [NewTask EXCEPT !.state = "live", !.pc = "recv"]
                           ELSE NewTask]
  /\ proc = [p \in Proc |-> IF p = Sweep
                            THEN [NewProc EXCEPT !.kind = "sweep", !.pc = "sleep"]
                            ELSE NewProc]
  /\ running = Idle
  /\ nextReq = 1
  /\ inactive_users = <<>>
  /\ exPos = [u \in Users |-> "FLAT"]
  /\ exStop = [u \in Users |-> FALSE]
  /\ ledger = [u \in Users |-> <<>>]
  /\ stats = [u \in Users |-> NewStats]
  /\ hist = [NewHist EXCEPT !.runningWrites = [i \in Inst |-> IF i \in {1, 2} THEN 1 ELSE 0]]
  /\ klines = <<>> /\ result = "HOLD" /\ stream = <<>> /\ items = <<>>
  /\ stored = [u \in Users |-> DefaultSettings]
  /\ InitLimiter

StopsAndSweep ==
  \/ \E r \in Req, u \in Users : StopUserBot(r, u)
  \/ \E r \in Req : StopUserBotFinish(r)
  \/ \E p \in Proc : \/ StopSync(p)
                     \/ StopTaskJoined(p)
                     \/ Cleanup(p)
                     \/ CloseDone(p)
  \/ SweepScan
  \/ SweepLoop
  \/ SweepEvict
  \/ \E i \in Inst, landed \in BOOLEAN : WsCancelled(i, landed)

NextSweep == StopsAndSweep /\ UNCHANGED sigVars

SpecSweep == InitTwoRunning /\ [][NextSweep]_vars

\* Shutdown: stop_all_bots over two running tenants, with the sweep still alive.
Shutdown ==
  \/ StopAllBots(1)
  \/ StopAllLoop(1)
  \/ \E written \in BOOLEAN : StopAllPersist(1, written)

SweepAndStops ==
  \/ \E p \in Proc : \/ StopSync(p)
                     \/ StopTaskJoined(p)
                     \/ Cleanup(p)
                     \/ CloseDone(p)
  \/ SweepScan
  \/ SweepLoop
  \/ SweepEvict
  \/ \E i \in Inst, landed \in BOOLEAN : WsCancelled(i, landed)

NextShutdown ==
  \/ Shutdown /\ UNCHANGED winVars
  \/ SweepAndStops /\ UNCHANGED sigVars

SpecShutdown == InitTwoRunning /\ [][NextShutdown]_vars

\* The two logging functions of a running instance and the deletion of its
\* user's account.
NextLedger ==
  \/ \E side \in {"LONG", "SHORT"}, ready \in BOOLEAN : LogTradeOpening(1, side, ready)
  \/ \E pnl \in Pnls, ready \in BOOLEAN : LogTradeClosure(1, "CLOSED_BY_FLIP", pnl, ready)
  \/ DeleteUser("u1")

SpecLedger == InitTwoRunning /\ [][NextLedger]_vars

\* One tenant whose running instance holds a LONG position opened at 100 (the
\* OPEN record is written, the stop order rests), and the closed candles it
\* then handles.
HoldingInstance ==
  [StartedInstance("u1") EXCEPT !.position_side = "LONG", !.last_signal = "LONG",
                                !.current_trade_id = 1, !.entry_price = 100,
                                !.entry_time = "now",
                                !.position_quantity = OrderQuantity(100, 1)]

InitHolding ==
  /\ user_bots = [u \in Users |-> IF u = "u1" THEN 1 ELSE NoInst]
  /\ ub_order = <<"u1">>
  /\ dbStatus = [u \in Users |-> IF u = "u1" THEN "running" ELSE "stopped"]
  /\ nextInst = 2
  /\ inst = [i \in Inst |-> IF i = 1 THEN HoldingInstance ELSE NewInstance]
  /\ conn = [i \in Inst |-> IF i = 1 THEN "open" ELSE None]
  /\ task = [i \in Inst |-> IF i = 1
                           THEN [NewTask EXCEPT !.state = "live", !.pc = "recv",
                                                !.sig = "LONG", !.entry = "accepted",
                                                !.stop = "accepted", !.price = 100]
                           ELSE NewTask]
  /\ proc = [p \in Proc |-> IF p = Sweep
                            THEN [NewProc EXCEPT !.kind = "sweep", !.pc = "sleep"]
                            ELSE NewProc]
  /\ running = Idle
  /\ nextReq = 1
  /\ inactive_users = <<>>
  /\ exPos = [u \in Users |-> IF u = "u1" THEN "LONG" ELSE "FLAT"]
  /\ exStop = [u \in Users |-> u = "u1"]
  /\ ledger = [u \in Users |-> IF u = "u1"
                               THEN <<[ status |-> "OPEN", reason |-> "", inst |-> 1,
                                        side |-> "LONG", trade_id |-> 1, pnl |-> 0 ]>>
                               ELSE <<>>]
  /\ stats = [u \in Users |-> NewStats]
  /\ hist = [NewHist EXCEPT !.runningWrites[1] = 1, !.flip[1].opened = TRUE]
  /\ klines = <<>> /\ result = "HOLD" /\ stream = <<>> /\ items = <<>>
  /\ stored = [u \in Users |-> DefaultSettings]
  /\ InitLimiter

CandleHandling ==
  \/ ExStopFires("u1")
  \/ \E s \in Signals : WsRecvClosedCandle(1, s)
  \/ \E rep \in Replies : WsPosReply(1, rep)
  \/ WsLcPnlReply(1)
  \/ WsLcPriceReply(1)
  \/ \E rep \in Replies, cur \in Prices : WsTpPriceReply(1, rep, cur)
  \/ \E rep \in Replies : WsCpCancelReply(1, rep)
  \/ WsCpSleepDone(1)
  \/ \E rep \in Replies : WsCpOrderReply(1, rep)
  \/ \E rep \in Replies : WsExecPosReply(1, rep)
  \/ WsSettleDone(1)
  \/ \E rep \in Replies, price \in Prices : WsExecPriceReply(1, rep, price)
  \/ \E rep \in Replies : WsEntryReply(1, rep)
  \/ WsBracketSleepDone(1)
  \/ \E rep \in Replies : WsStopLegReply(1, rep)

NextHolding == CandleHandling /\ UNCHANGED sigVars

SpecHolding == InitHolding /\ [][NextHolding]_vars

\* The same instance when the trade store may fail at any write; the exchange
\* answers every call, the market price is 100 or, for the take-profit check,
\* 108.
UnreliableLedger ==
  \/ ExStopFires("u1")
  \/ \E s \in Signals : WsRecvClosedCandle(1, s)
  \/ WsPosReply(1, "ok")
  \/ WsLcPnlReply(1)
  \/ \E ready \in BOOLEAN : WsLcPriceLogged(1, ready)
  \/ \E cur \in {100, 108} : WsTpPriceReply(1, "ok", cur)
  \/ WsCpCancelReply(1, "ok")
  \/ WsCpSleepDone(1)
  \/ WsCpOrderReply(1, "ok")
  \/ WsExecPosReply(1, "ok")
  \/ WsSettleDone(1)
  \/ WsExecPriceReply(1, "ok", 100)
  \/ WsEntryReply(1, "ok")
  \/ WsBracketSleepDone(1)
  \/ \E ready \in BOOLEAN : WsStopLegLogged(1, "ok", ready)

NextUnreliable == UnreliableLedger /\ UNCHANGED sigVars

SpecUnreliable == InitHolding /\ [][NextUnreliable]_vars

\* ------------------------------------------------ two tenants
\* Tenant A issues start and stop requests, its stream fails and reconnects, it
\* handles closed candles and the exchange rejects its orders; tenant B's bot
\* runs, is stopped on request, and the sweep runs.  Both bots run at first;
\* one start of A gets as far as constructing an instance, and the instance A
\* has at first handles one closed candle with a LONG signal.
TenantA == "u1"
TenantB == "u2"

OfTenantA ==
  \/ \E r \in 1..3, s \in Symbols :
       /\ \A p \in Req : proc[p].kind = "start" => proc[p].cause = "already_running"
       /\ StartUserBot(r, TenantA, s)
  \/ \E r \in 1..3 : StopUserBot(r, TenantA)
  \/ \E r \in {p \in 1..3 : proc[p].user = TenantA} :
       \/ StartDiscardOld(r)
       \/ CreateAndStart(r)
       \/ \E o \in InitOutcomes : InitReply(r, o)
       \/ \E ok \in BOOLEAN : LevReply(r, ok)
       \/ \E ok \in BOOLEAN : HistReply(r, ok)
       \/ FailCloseDone(r)
       \/ StopUserBotFinish(r)
       \/ StopSync(r)
       \/ StopTaskJoined(r)
       \/ Cleanup(r)
       \/ CloseDone(r)
  \/ \E i \in {j \in Inst : inst[j].owner = TenantA} :
       \/ WsRun(i)
       \/ \E ok \in BOOLEAN : WsConnectReply(i, ok)
       \/ WsBackoffDone(i)
       \/ \E what \in {"timeout", "closed", "error"} : WsRecvDrop(i, what)
       \/ \E landed \in BOOLEAN : WsCancelled(i, landed)
  \/ task[1].candles = 0 /\ WsRecvClosedCandle(1, "LONG")
  \/ WsPosReply(1, "ok")
  \/ WsExecPosReply(1, "ok")
  \/ WsExecPriceReply(1, "ok", 100)
  \/ \E rep \in Replies : WsEntryReply(1, rep)
  \/ WsBracketSleepDone(1)
  \/ \E rep \in Replies : WsStopLegReply(1, rep)

OfTenantB ==
  \/ \E r \in 1..3 : StopUserBot(r, TenantB)
  \/ \E r \in {p \in 1..3 : proc[p].user = TenantB} :
       \/ StopUserBotFinish(r)
       \/ StopSync(r)
       \/ StopTaskJoined(r)
       \/ Cleanup(r)
       \/ CloseDone(r)
  \/ \E landed \in BOOLEAN : WsCancelled(2, landed)

TheSweep ==
  \/ StopSync(Sweep)
  \/ StopTaskJoined(Sweep)
  \/ Cleanup(Sweep)
  \/ CloseDone(Sweep)
  \/ SweepScan
  \/ SweepLoop
  \/ SweepEvict

NextIsolation == (OfTenantA \/ OfTenantB \/ TheSweep) /\ UNCHANGED sigVars

SpecIsolation == InitTwoRunning /\ [][NextIsolation]_vars

\* ------------------------------------------------ rate_limiter.py
\* rate_limit_middleware lines 97 and 103-114: the class of a path by its
\* prefix, on the paths of the model
EndpointClass(path) ==
  CASE path = "/health" -> "skip"
    [] path = "/api/auth/login" -> "auth"
    [] path = "/api/admin/users" -> "admin"
    [] OTHER -> "other"

\* lines 103-114: the limit and the window of each class
Limits ==
  [ auth |-> [max_requests |-> 10, window_seconds |-> 900],
    admin |-> [max_requests |-> 50, window_seconds |-> 3600],
    other |-> [max_requests |-> RATE_LIMIT_REQUESTS,
               window_seconds |-> RATE_LIMIT_WINDOW] ]

\* lines 27-28 and 62-63: timestamps before window_start are popped from the left
RECURSIVE DropOld(_, _)
DropOld(request_times, window_start) ==
  IF request_times # <<>> /\ Head(request_times) < window_start
  THEN DropOld(Tail(request_times), window_start)
  ELSE request_times

\* is_allowed lines 20-36: what it returns
Allowed(identifier, max_requests, window_seconds) ==
  Len(DropOld(requests[identifier], now - window_seconds)) < max_requests

\* is_allowed lines 20-36: what it does to the deque of the identifier
is_allowed(identifier, max_requests, window_seconds) ==
  LET request_times == DropOld(requests[identifier], now - window_seconds) IN
  requests' = [requests EXCEPT ![identifier] =
                 IF Len(request_times) >= max_requests THEN request_times
                 ELSE Append(request_times, now)]

\* rate_limit_middleware lines 94-133 for a request of client_ip to path: the
\* request is passed on (call_next) or answered with 429
rate_limit_middleware(client_ip, path) ==
  LET c == EndpointClass(path) IN
  /\ Len(admitted[client_ip]["auth"]) + Len(admitted[client_ip]["admin"])
       + Len(admitted[client_ip]["other"]) < MaxAdmitted
  /\ IF c = "skip"
     THEN UNCHANGED <<requests, admitted>>
     ELSE /\ is_allowed(client_ip, Limits[c].max_requests, Limits[c].window_seconds)
          /\ admitted' = IF Allowed(client_ip, Limits[c].max_requests,
                                    Limits[c].window_seconds)
                         THEN [admitted EXCEPT ![client_ip][c] = Append(@, now)]
                         ELSE admitted
  /\ UNCHANGED <<engineVars, klines, result, stream, items, stored, now>>

\* cleanup_old_entries lines 54-67: one pass over all identifiers; a deque left
\* empty is deleted, which is_allowed cannot tell from an empty one
cleanup_old_entries ==
  /\ requests' = [identifier \in Identifiers |->
                    DropOld(requests[identifier], now - RATE_LIMIT_WINDOW)]
  /\ UNCHANGED <<engineVars, klines, result, stream, items, stored, now, admitted>>

\* time passes between two requests: half an hour and a second
Advances == {1801}

Tick(dt) ==
  /\ now + dt <= MaxNow
  /\ now' = now + dt
  /\ UNCHANGED <<engineVars, klines, result, stream, items, stored, requests, admitted>>

NextLimiter ==
  \/ \E client_ip \in Identifiers, path \in Paths : rate_limit_middleware(client_ip, path)
  \/ cleanup_old_entries
  \/ \E dt \in Advances : Tick(dt)

\* one client has just made as many admin requests as the admin class allows,
\* all of them let through
InitAdminQuotaUsed ==
  /\ InitEngine /\ klines = <<>> /\ result = "HOLD" /\ stream = <<>> /\ items = <<>>
  /\ stored = [u \in Users |-> DefaultSettings]
  /\ now = 0
  /\ requests = [identifier \in Identifiers |->
                   [k \in 1..Limits.admin.max_requests |-> 0]]
  /\ admitted = [identifier \in Identifiers |->
                   [c \in Classes |->
                      IF c = "admin" THEN [k \in 1..Limits.admin.max_requests |-> 0]
                      ELSE <<>>]]

SpecLimiter == InitAdminQuotaUsed /\ [][NextLimiter]_vars

\* ------------------------------------------------ POST /api/bot/settings
\* (mutant) the stored settings are also written into the tenant's instances
UpdateBotSettingsApplied(u, settings_data) ==
  /\ running = Idle
  /\ stored' = [stored EXCEPT ![u] = settings_data]
  /\ inst' = [i \in Inst |-> IF inst[i].owner = u
                             THEN WithSettings(inst[i], settings_data)
                             ELSE inst[i]]
  /\ UNCHANGED <<regVars, exVars, nextInst, conn, task, proc, running, nextReq,
                 inactive_users, hist, klines, result, stream, items, rateVars>>

\* main.py update_bot_settings: the five settings are written to the user
\* document (update_user has no suspension of its own); nothing else is touched
UpdateBotSettings(u, settings_data) ==
  /\ running = Idle
  /\ stored' = [stored EXCEPT ![u] = settings_data]
  /\ UNCHANGED <<engineVars, klines, result, stream, items, rateVars>>

\* Three requests of one tenant (start, stop, start again in any order), the
\* stream tasks of its instances, and edits of its settings at any time.
SettingsRequests ==
  \/ \E r \in 1..3, s \in Symbols : StartUserBot(r, Tenant, s)
  \/ \E r \in 1..3 : \/ StopUserBot(r, Tenant)
                     \/ StartDiscardOld(r)
                     \/ CreateAndStart(r)
                     \/ \E o \in InitOutcomes : InitReply(r, o)
                     \/ \E ok \in BOOLEAN : LevReply(r, ok)
                     \/ \E ok \in BOOLEAN : HistReply(r, ok)
                     \/ FailCloseDone(r)
                     \/ StopUserBotFinish(r)
                     \/ StopSync(r)
                     \/ StopTaskJoined(r)
                     \/ Cleanup(r)
                     \/ CloseDone(r)

NextSettings ==
  \/ (SettingsRequests \/ Stream) /\ UNCHANGED sigVars
  \/ \E settings_data \in SettingsChoices : UpdateBotSettings(Tenant, settings_data)

SpecSettings == Init /\ [][NextSettings]_vars

\* ======================================================== properties
Owned(u) == {i \in Inst : inst[i].owner = u}
Registered(i) == \E u \in Users : user_bots[u] = i
StartFailures == {"exchange_unavailable", "symbol_not_found",
                  "insufficient_permission", "no_historical_data"}
LastOf(seq) == seq[Len(seq)]

\* C1: a tenant never has more than one instance whose stream task is live.
C1_OneLiveTaskPerTenant ==
  \A u \in Users : Cardinality({i \in Owned(u) : task[i].state = "live"}) <= 1

\* C2: position_side becomes LONG or SHORT, and an OPEN record is written, only
\* in a step at which both orders of the bracket have been accepted and the
\* stop order rests on the exchange.
C2_Recorded(i) ==
  \/ inst'[i].position_side # None /\ inst'[i].position_side # inst[i].position_side
  \/ /\ inst[i].owner # None
     /\ Len(ledger'[inst[i].owner]) > Len(ledger[inst[i].owner])
     /\ LastOf(ledger'[inst[i].owner]).status = "OPEN"
     /\ LastOf(ledger'[inst[i].owner]).inst = i

C2_PositionOnlyAfterBracket ==
  [][\A i \in Inst : C2_Recorded(i) =>
        /\ task'[i].entry = "accepted"
        /\ task'[i].stop = "accepted"
        /\ task[i].pc = "b_sl_wait"
        /\ exStop'[inst[i].owner]]_vars

C2_Witness ==
  \E i \in Inst : /\ inst[i].position_side = "SHORT"
                  /\ task[i].stop = "accepted"
                  /\ Len(ledger[inst[i].owner]) > 0
                  /\ LastOf(ledger[inst[i].owner]).status = "OPEN"

\* C3: once create_market_order_with_sl is over with the entry accepted and the
\* stop not accepted, the tenant holds no position without a resting stop.
C3_NoNakedPosition ==
  \A i \in Inst :
    (/\ task[i].entry = "accepted"
     /\ task[i].stop # "accepted"
     /\ task[i].pc \notin {"b_sleep", "b_sl_wait"})
    => (exPos[inst[i].owner] = "FLAT" \/ exStop[inst[i].owner])

\* C4: stop() releases the connection only when the stream task has ended, and
\* once stop() has returned the task is not live and the instance sends no
\* order (entry, stop, cancel or close) any more.
OrderPcs == {"b_entry_wait", "b_sl_wait", "cp_cancel_wait", "cp_order_wait"}

C4_NoOrderAfterStop ==
  [][\A i \in Inst :
       /\ (inst[i].stop_requested /\ conn[i] # None /\ conn'[i] = None)
            => task[i].state # "live"
       /\ hist'.stopReturned[i] => task'[i].state # "live"
       /\ hist.stopReturned[i] =>
            ~(task'[i].pc \in OrderPcs /\ task'[i].pc # task[i].pc)]_vars

C4_Witness ==
  \E i \in Inst : /\ hist.stopReturned[i]
                  /\ task[i].state = "done"
                  /\ task[i].entry = "accepted"
                  /\ task[i].stop = "none"
                  /\ conn[i] = None

\* C5: when an OPEN record is written by a flip that began with a position
\* held by the instance and open on the exchange, close_position was called
\* and exactly one CLOSED record was written by that flip before.
C5_CloseBeforeOpen ==
  \A i \in Inst :
    (hist.flip[i].opened /\ hist.flip[i].hadPos /\ hist.flip[i].held)
    => (hist.flip[i].closeCalls >= 1 /\ hist.flip[i].closedLogged = 1)

\* C6: when the sweep evicts an instance that stop_user_bot is stopping, the
\* sweep does not fail on a removed key, and the stop_user_bot that found the
\* tenant registered does not either and reports success.
C6_NoLostUpdate ==
  /\ hist.keyErrors[Sweep] = 0
  /\ \A r \in Req : (proc[r].kind = "stop" /\ proc[r].pc = "done"
                       /\ proc[r].bot # NoInst /\ hist.swept[proc[r].bot])
                    => (proc[r].result = "True" /\ hist.keyErrors[r] = 0)

\* C7: once the sweep is done with an instance it found not running, the
\* instance is out of the map and "stopped" was persisted for it exactly once.
C7_SweptOnce ==
  \A i \in Inst :
    (hist.swept[i] /\ proc[Sweep].bot # i)
    => (~Registered(i) /\ hist.stoppedWrites[i] = 1)

\* C8: a start request that arrives while the tenant's registered instance is
\* active is rejected at once, and nothing of the registry, of the instances,
\* of their tasks and connections changes.
C8_Active(u) ==
  /\ user_bots[u] # NoInst
  /\ inst[user_bots[u]].is_active
  /\ ~inst[user_bots[u]].stop_requested

C8_SecondStartRejected ==
  [][\A r \in Req, u \in Users :
       (proc[r].kind = "idle" /\ proc'[r].kind = "start" /\ proc'[r].user = u
          /\ C8_Active(u))
       => /\ proc'[r].pc = "done"
          /\ proc'[r].result = "False"
          /\ running' = Idle
          /\ UNCHANGED <<user_bots, inst, task, conn, dbStatus>>
          /\ task[user_bots[u]].state = "live"]_vars

C8_Witness ==
  \E r \in Req : /\ proc[r].cause = "already_running"
                 /\ proc[r].result = "False"
                 /\ C8_Active(proc[r].user)
                 /\ task[user_bots[proc[r].user]].state = "live"

\* C9: the instance of a start that failed has no stream task, is not active,
\* is not registered and no "running" status was persisted for it; when the
\* request is over its gateway connection is released.
C9_FailedStartNeverStreams ==
  \A r \in Req :
    (proc[r].kind = "start" /\ proc[r].cause \in StartFailures)
    => LET i == proc[r].bot IN
       /\ task[i].state = "none"
       /\ inst[i].websocket_task = None
       /\ ~inst[i].is_active
       /\ ~Registered(i)
       /\ hist.runningWrites[i] = 0
       /\ proc[r].pc = "done" =>
            (inst[i].binance_client = None /\ conn[i] = None
               /\ proc[r].result = "False")

C9_Witness ==
  \E r \in Req : /\ proc[r].pc = "done"
                 /\ proc[r].cause = "no_historical_data"
                 /\ conn[proc[r].bot] = None

\* C10: two start requests that failed for different reasons give their
\* callers different results.
C10_ReasonPropagated ==
  \A r1, r2 \in Req :
    (/\ proc[r1].pc = "done" /\ proc[r1].cause \in StartFailures
     /\ proc[r2].pc = "done" /\ proc[r2].cause \in StartFailures
     /\ proc[r1].cause # proc[r2].cause)
    => proc[r1].result # proc[r2].result

\* C11 (as stated): stop() on an instance that was never started or is already
\* stopped leaves every field of the instance, its task and its connection as
\* they were, without suspending.
C11_StopIsNoOp ==
  [][\A p \in Proc :
       (running = p /\ proc[p].pc \in {"stop_sync", "cleanup"}
          /\ NotStarted(proc[p].bot))
       => LET i == proc[p].bot IN
          /\ inst'[i] = inst[i]
          /\ task'[i] = task[i]
          /\ conn'[i] = conn[i]
          /\ running' = p]_vars

\* C11 (amended): stop() on an instance that was never started or is already
\* stopped runs to its return without suspending and leaves the running flag
\* false, the stream task, the gateway client, the connection and the position
\* state as they were; the stop flag is set, so is_running() stays false and a
\* second stop() changes nothing.
C11_StopOnlySetsStopFlag ==
  [][\A p \in Proc :
       (running = p /\ proc[p].pc \in {"stop_sync", "cleanup"}
          /\ NotStarted(proc[p].bot))
       => LET i == proc[p].bot IN
          /\ inst'[i] = [inst[i] EXCEPT !.stop_requested = TRUE]
          /\ task'[i] = task[i]
          /\ conn'[i] = conn[i]
          /\ running' = p
          /\ proc'[p].pc \in {"cleanup", "stop_ret"}
          /\ (inst[i].stop_requested => inst'[i] = inst[i])]_vars

C11_Witness ==
  \E r \in Req : /\ proc[r].kind = "call_stop"
                 /\ proc[r].pc = "done"
                 /\ task[proc[r].bot].state = "none"
                 /\ inst[proc[r].bot].stop_requested
                 /\ ~inst[proc[r].bot].is_active

\* C12: in the step at which an order of the bracket is rejected, the flip is
\* over with position_side None, and the stream task is still live and goes on
\* to the next message unless a stop was requested.
C12_BracketRejected(i) ==
  \/ task[i].pc = "b_entry_wait" /\ task'[i].entry = "rejected"
  \/ task[i].pc = "b_sl_wait" /\ task'[i].stop = "rejected"

C12_RejectedFlipLeavesFlat ==
  [][\A i \in Inst : C12_BracketRejected(i) =>
        /\ inst'[i].position_side = None
        /\ task'[i].pc = AfterMessage(i)]_vars

\* C13: when the entry order of a bracket is submitted, the instance holds no
\* position that is still open on the exchange.
C13_EntryOnlyWhenClosed ==
  [][\A i \in Inst :
       (task[i].pc # "b_entry_wait" /\ task'[i].pc = "b_entry_wait")
       => ~(inst[i].position_side # None /\ exPos[inst[i].owner] # "FLAT")]_vars

\* C14: when the open positions arrive empty on a closed candle while the
\* instance records a position, the instance goes through _log_trade_closure
\* with the reason CLOSED_BY_SL_OR_TP, writes exactly one CLOSED record, clears
\* side, trade id, entry price, entry time and quantity, and sends no cancel or
\* close order on the way.
C14_Handles(i) ==
  task'[i] # task[i] /\ ~task[i].must_cancel /\ ~task'[i].must_cancel

C14_ExternalCloseCleared ==
  [][\A i \in Inst :
       LET u == inst[i].owner
           t == task[i]
           rec == [ status |-> "CLOSED", reason |-> "CLOSED_BY_SL_OR_TP", inst |-> i,
                    side |-> inst[i].position_side,
                    trade_id |-> inst[i].current_trade_id, pnl |-> NoTradesPnl ] IN
       /\ (C14_Handles(i) /\ t.pc = "h_pos_wait" /\ inst[i].position_side # None
             /\ exPos[u] = "FLAT")
          => /\ task'[i].pc = "lc_pnl_wait"
             /\ task'[i].lcRet = "ext"
             /\ task'[i].lcReason = "CLOSED_BY_SL_OR_TP"
             /\ UNCHANGED <<inst, ledger, exPos, exStop>>
       /\ (C14_Handles(i) /\ t.pc = "lc_pnl_wait" /\ t.lcRet = "ext")
          => /\ task'[i].pc = "lc_price_wait"
             /\ UNCHANGED <<inst, ledger, exPos, exStop>>
       /\ (C14_Handles(i) /\ t.pc = "lc_price_wait" /\ t.lcRet = "ext")
          => /\ ledger'[u] = Append(ledger[u], rec)
             /\ inst'[i].position_side = None
             /\ inst'[i].current_trade_id = NoTradeId
             /\ inst'[i].entry_price = NoPrice
             /\ inst'[i].entry_time = None
             /\ inst'[i].position_quantity = NoQuantity
             /\ task'[i].pc \notin {"cp_cancel_wait", "cp_sleep", "cp_order_wait"}
             /\ UNCHANGED <<exPos, exStop>>]_vars

C14_Witness ==
  \E i \in Inst :
    /\ inst[i].owner # None
    /\ Len(ledger[inst[i].owner]) >= 2
    /\ LastOf(ledger[inst[i].owner]).reason = "CLOSED_BY_SL_OR_TP"
    /\ LastOf(ledger[inst[i].owner]).side \in {"LONG", "SHORT"}
    /\ inst[i].position_side = None
    /\ inst[i].entry_price = NoPrice
    /\ exPos[inst[i].owner] = "FLAT"

\* C15: when the price arrives in the take-profit check of a recorded position,
\* the position is closed through close_position exactly when
\* (cur - entry) / entry * 100 for LONG, (entry - cur) / entry * 100 for SHORT,
\* is at least take_profit_percent; after close_position the CLOSED record with
\* the reason CLOSED_BY_TAKE_PROFIT is written and the position state cleared;
\* below the target no order is sent and the position state stays as it was.
C15_Reached(side, entry, cur) ==
  IF side = "LONG" THEN (cur - entry) * 100 >= take_profit_percent * entry
                   ELSE (entry - cur) * 100 >= take_profit_percent * entry

C15_TakeProfit ==
  [][\A i \in Inst :
       LET u == inst[i].owner
           t == task[i]
           cur == task'[i].current_price
           rec == [ status |-> "CLOSED", reason |-> "CLOSED_BY_TAKE_PROFIT",
                    inst |-> i, side |-> inst[i].position_side,
                    trade_id |-> inst[i].current_trade_id, pnl |-> NoTradesPnl ] IN
       /\ (C14_Handles(i) /\ t.pc = "tp_price_wait")
          => IF cur # NoPrice
                /\ C15_Reached(inst[i].position_side, inst[i].entry_price, cur)
             THEN /\ task'[i].pc = "cp_cancel_wait"
                  /\ task'[i].cpRet = "tp"
                  /\ UNCHANGED <<inst, ledger>>
             ELSE /\ task'[i].pc \in {"x_pos_wait", "recv", "done"}
                  /\ inst'[i] = [inst[i] EXCEPT !.last_signal = t.sig]
                  /\ UNCHANGED <<ledger, exPos, exStop>>
       /\ (C14_Handles(i) /\ t.cpRet = "tp"
             /\ t.pc \in {"cp_cancel_wait", "cp_order_wait"}
             /\ task'[i].pc \notin {"cp_sleep", "cp_order_wait"})
          => /\ task'[i].pc = "lc_pnl_wait"
             /\ task'[i].lcReason = "CLOSED_BY_TAKE_PROFIT"
       /\ (C14_Handles(i) /\ t.pc = "lc_price_wait" /\ t.lcRet = "tp")
          => /\ ledger'[u] = Append(ledger[u], rec)
             /\ inst'[i] = [ClearedPosition(inst[i]) EXCEPT !.last_signal = t.sig]
             /\ inst'[i].position_side = None /\ inst'[i].entry_price = NoPrice]_vars

C15_Witness ==
  \E i \in Inst :
    /\ inst[i].position_side = "LONG"
    /\ inst[i].entry_price = 100
    /\ task[i].current_price = 108
    /\ task[i].pc = "lc_pnl_wait"
    /\ task[i].lcReason = "CLOSED_BY_TAKE_PROFIT"
    /\ exPos[inst[i].owner] = "FLAT"

\* ------------------------------------------------ the signal engine
\* C16: a window with fewer than long-period+1 closes (fewer than 22) is
\* answered with HOLD.
C16_ShortWindowHolds ==
  Len(klines) < long_ema_period + 1 => result = "HOLD"

\* the relation of the two averages at the last two positions of the window
C17_Expected(closes) ==
  LET short_ema == _calculate_ema(closes, short_ema_period)
      long_ema == _calculate_ema(closes, long_ema_period)
      current_short == short_ema[Len(short_ema)]
      current_long == long_ema[Len(long_ema)]
      prev_short == short_ema[Len(short_ema) - 1]
      prev_long == long_ema[Len(long_ema) - 1]
  IN IF ~FLess(prev_long, prev_short) /\ FLess(current_long, current_short)
     THEN "LONG"
     ELSE IF ~FLess(prev_short, prev_long) /\ FLess(current_short, current_long)
     THEN "SHORT"
     ELSE "HOLD"

\* C17: on a window of at least long-period+1 closes the signal is LONG when
\* the short average was less than or equal to the long one a step ago and is
\* greater now, SHORT when it was greater than or equal and is less now, and
\* HOLD for every other pair of relations.
C17_CrossoverRule ==
  Len(klines) >= long_ema_period + 1 => result = C17_Expected(klines)

\* the averages proper exist from position `period` on: position 21 is the
\* first of the long average, position 22 the second
C18_CrossesAtLast(closes) ==
  LET short_ema == _calculate_ema(closes, short_ema_period)
      long_ema == _calculate_ema(closes, long_ema_period)
  IN /\ Len(closes) = long_ema_period + 1
     /\ FLess(short_ema[long_ema_period], long_ema[long_ema_period])
     /\ FLess(long_ema[long_ema_period + 1], short_ema[long_ema_period + 1])

\* C18: for a window of 22 closes whose short average is below the long one
\* at position 21 (index 20) and above it at position 22 (index 21), every
\* prefix of 1 to 21 closes is answered with HOLD and the whole window with
\* LONG.
C18_OnlyTheLastIsLong ==
  C18_CrossesAtLast(klines)
    => /\ \A k \in 1..long_ema_period :
            analyze_klines(SubSeq(klines, 1, k)) = "HOLD"
       /\ result = "LONG"

\* ------------------------------------------------ the order quantity
\* notional * leverage / price cut to `decimals` decimals
C19_Floored(price, decimals) ==
  LET steps == (order_size_usdt * leverage * Pow10(decimals)) \div price
  IN Frac(steps, Pow10(decimals))

\* _format_quantity on the quantities of all prices and precisions
C19_FunctionFloors ==
  /\ order_size_usdt = 25 /\ leverage = 10
  /\ _format_quantity(Frac(250, 100), 1) = [n |-> 5, d |-> 2]
  /\ _format_quantity(Frac(250, 100), 0) = [n |-> 2, d |-> 1]
  /\ \A price \in Prices, decimals \in Precisions :
       /\ OrderQuantity(price, decimals) = C19_Floored(price, decimals)
       /\ ~FLess(Frac(order_size_usdt * leverage, price),
                 OrderQuantity(price, decimals))

C20_Steps(i) == task[i].state = "live" /\ C14_Handles(i)

\* C20: while stop has not been requested, an idle timeout, a closed
\* connection, a failed connect, a failed recv or a failure while a message is
\* handled leaves the stream task alive, on its way to a new connection or to
\* the next message; no step of the stream task changes is_active; and the
\* task ends only when stop_requested is set.
C20_StreamReconnects ==
  [][\A i \in Inst :
       /\ (task[i].state = "live" /\ task'[i].state = "done")
            => inst[i].stop_requested
       /\ C20_Steps(i)
            => /\ inst'[i].is_active = inst[i].is_active
               /\ inst'[i].stop_requested = inst[i].stop_requested
       /\ (C20_Steps(i) /\ ~inst[i].stop_requested)
            => /\ task'[i].state = "live"
               /\ task[i].pc = "recv"
                    => task'[i].pc \in {"recv", "h_pos_wait", "connecting", "backoff"}
               /\ task[i].pc = "connecting" => task'[i].pc \in {"recv", "backoff"}
               /\ task[i].pc = "backoff" => task'[i].pc = "connecting"
               /\ task[i].pc \in {"b_entry_wait", "b_sl_wait", "x_price_wait"}
                    => task'[i].pc \in {"recv", "b_sleep", "b_entry_wait"} ]_vars

\* after a candle was handled the connection failed: the task waits to
\* reconnect and the instance is still active
C20_Witness ==
  \E i \in Inst :
    /\ task[i].state = "live"
    /\ task[i].pc = "backoff"
    /\ task[i].candles >= 1
    /\ inst[i].is_active
    /\ ~inst[i].stop_requested

\* C21: after an idle timeout or a closed connection with stop not requested,
\* the stream task waits the backoff before it connects again: a task that
\* waits for a message never goes to a connection attempt in one step.
C21_BackoffBeforeReconnect ==
  [][\A i \in Inst :
       (C20_Steps(i) /\ task[i].pc = "recv" /\ ~inst[i].stop_requested)
         => task'[i].pc # "connecting"]_vars

\* ------------------------------------------------ candle events
\* the stream task of instance i is inside _handle_websocket_message
C22_Handling(i) ==
  /\ task[i].state = "live"
  /\ task[i].pc \notin {"none", "start", "connecting", "backoff", "recv", "done"}

\* C22: the candle events of one tenant are handled one at a time: at no time
\* are two closed-candle events of the same tenant being handled.
C22_OneEventAtATime ==
  \A u \in Users : Cardinality({i \in Owned(u) : C22_Handling(i)}) <= 1

\* C23: a message whose closed flag is false leaves the candle window, the
\* position state and the last signal as they were, and no exchange call and
\* no ledger write follows from it.
C23_OpenCandleIgnored ==
  [][(stream # <<>> /\ stream' = Tail(stream) /\ ~Head(stream).x)
       => UNCHANGED <<klines, result, inst, task, exPos, exStop, ledger>>]_vars

\* an open candle was taken from the stream of a full window and two
\* messages are left
C23_Witness ==
  /\ Len(stream) = MaxMsgs - 1
  /\ Len(klines) = MaxCloses
  /\ \A k \in 1..MaxCloses : klines[k] = 100
  /\ stream[1].x /\ stream[1].c = 108

\* C24: the candle window keeps its length: after a closed candle was handled
\* the window is as long as before, its last element is that candle, and the
\* elements before it are the previous window without its oldest element, in
\* order; the length is that of the loaded window ever after.
C24_WindowSlides ==
  [][/\ Len(klines') = Len(klines)
     /\ (stream # <<>> /\ stream' = Tail(stream) /\ Head(stream).x)
          => /\ klines'[Len(klines')] = Head(stream).c
             /\ \A k \in 1..(Len(klines) - 1) : klines'[k] = klines[k + 1]]_vars

\* two closed candles, 92 then 108, were handled by a full window
C24_Witness ==
  /\ Len(klines) = MaxCloses
  /\ klines[MaxCloses] = 108
  /\ klines[MaxCloses - 1] = 92
  /\ klines[MaxCloses - 2] = 100
  /\ Len(stream) = MaxMsgs - 2

\* ------------------------------------------------ the sweep
\* C25: the sweep task never ends, and a failure on one inactive entry does
\* not end the pass: after a KeyError on an entry the sweep is still at its
\* loop over the entries found inactive, every entry of that list is taken in
\* turn, and the sweep goes back to its sleep, to scan again later, only when
\* the list is used up.
C25_SweepGoesOn ==
  [][/\ proc'[Sweep].kind = "sweep"
     /\ proc'[Sweep].pc \in {"sleep", "sweep_loop", "stop_sync", "stop_await_task",
                             "cleanup", "close_wait", "stop_ret"}
     /\ hist'.keyErrors[Sweep] > hist.keyErrors[Sweep]
          => /\ proc'[Sweep].pc = "sweep_loop"
             /\ running' = Sweep
     /\ (proc[Sweep].pc = "sweep_loop" /\ proc'[Sweep] # proc[Sweep]
           /\ inactive_users # <<>>)
          => /\ inactive_users' = Tail(inactive_users)
             /\ proc'[Sweep].pc = "stop_sync"
             /\ proc'[Sweep].user = Head(inactive_users)
     /\ (proc[Sweep].pc # "sleep" /\ proc'[Sweep].pc = "sleep")
          => inactive_users = <<>>
     /\ (proc[Sweep].pc = "sweep_loop" /\ inactive_users # <<>>)
          => proc'[Sweep].pc # "sleep"]_vars

\* the entry of u1 was gone when the sweep came to it (KeyError), and the
\* sweep went on to evict u2 in the same pass
C25_Witness ==
  /\ hist.keyErrors[Sweep] = 1
  /\ inactive_users = <<>>
  /\ proc[Sweep].user = "u2"
  /\ proc[Sweep].pc = "stop_ret"
  /\ ~InMap("u1")

\* ------------------------------------------------ shutdown
\* C26: stop_all_bots takes every entry of its list in turn, whatever became
\* of the entries before it, and returns only when the list is used up; when
\* it returns the map is empty and no instance that was ever registered has a
\* live stream task.
C26_StopAllStopsAll ==
  [][\A r \in Req :
       proc[r].kind = "stop_all"
         => /\ (proc[r].pc = "all_loop" /\ items # <<>> /\ proc'[r] # proc[r])
                 => /\ proc'[r].pc = "stop_sync"
                    /\ proc'[r].bot = Head(items)[2]
                    /\ items' = Tail(items)
            /\ (proc[r].pc # "done" /\ proc'[r].pc = "done")
                 => /\ items = <<>>
                    /\ \A u \in Users : user_bots'[u] = NoInst
                    /\ \A i \in Inst : hist.runningWrites[i] > 0
                                         => task'[i].state = "done"]_vars

\* stop_all_bots has returned; the status write for u1 failed and the one for
\* u2 succeeded; both stream tasks have ended and the map is empty
C26_Witness ==
  /\ proc[1].kind = "stop_all" /\ proc[1].pc = "done"
  /\ dbStatus["u1"] = "running" /\ dbStatus["u2"] = "stopped"
  /\ task[1].state = "done" /\ task[2].state = "done"
  /\ \A u \in Users : user_bots[u] = NoInst

\* ------------------------------------------------ stop_user_bot
\* C27: a stop_user_bot request that found the tenant registered returns with
\* the instance stopped (no live stream task), out of the map, and "stopped"
\* persisted for it; a request that found the tenant absent returns at once
\* and changes neither the map nor the persisted status.
C27_StopForUser ==
  [][\A r \in Req :
       /\ (proc[r].kind = "stop" /\ proc[r].pc # "done" /\ proc'[r].pc = "done")
            => LET i == proc[r].bot IN
               /\ task'[i].state # "live"
               /\ ~(\E u \in Users : user_bots'[u] = i)
               /\ hist'.stoppedWrites[i] > 0
       /\ (proc[r].kind # "stop" /\ proc'[r].kind = "stop" /\ proc'[r].pc = "done")
            => UNCHANGED regVars]_vars


\* ------------------------------------------------ settings snapshot
\* C28: an instance trades with the settings its start request read from the
\* user document: the five settings fields are set at construction to those
\* settings and no later step changes them, whatever is stored afterwards.
C28_SettingsFrozen ==
  [][\A i \in Inst :
       /\ i < nextInst => SettingsOf(inst'[i]) = SettingsOf(inst[i])
       /\ (i = nextInst /\ nextInst' = nextInst + 1 /\ inst'[i].owner # None
             /\ inst'[i].binance_client # None)
            => \E r \in Req : /\ proc[r].pc = "create" /\ running = r
                              /\ SettingsOf(inst'[i]) = proc[r].settings]_vars

\* a running instance with a live stream task whose settings are no longer
\* the stored ones
C28_Witness ==
  \E i \in Inst :
    /\ inst[i].is_active /\ task[i].state = "live"
    /\ user_bots[inst[i].owner] = i
    /\ SettingsOf(inst[i]) = DefaultSettings
    /\ stored[inst[i].owner] # DefaultSettings

\* ------------------------------------------------ ledger and statistics
\* the step appends one record to the ledger of u
C29_Appends(u) ==
  /\ Len(ledger'[u]) = Len(ledger[u]) + 1
  /\ ledger'[u] = Append(ledger[u], LastOf(ledger'[u]))

\* the statistics of u go from `old` to `new` by one trade with this pnl
C29_CountsOne(old, new, pnl) ==
  /\ new.total_trades = old.total_trades + 1
  /\ new.total_pnl = old.total_pnl + pnl
  /\ \/ new.winning_trades = old.winning_trades + 1
        /\ new.losing_trades = old.losing_trades
     \/ new.winning_trades = old.winning_trades
        /\ new.losing_trades = old.losing_trades + 1

C30_ClosedIsFinal ==
  \A u \in Users :
    \A j, k \in 1..Len(ledger[u]) :
      (j < k /\ ledger[u][j].status = "CLOSED")
        => ledger[u][k].trade_id # ledger[u][j].trade_id

\* C31: a failed write of a trade record does not hold up the trading loop. When
\* log_trade fails for a CLOSED record the position state is still cleared
\* (external close, take profit) or the close order is still sent (flip); when
\* it fails for an OPEN record the new position is still recorded; in each case
\* the stream task stays alive and goes on with the signal or the next candle.
C31_LogFailureDoesNotBlock ==
  [][ LET t == task[1]
          t2 == task'[1] IN
      /\ t.pc = "lc_price_wait" /\ t2.pc # "lc_price_wait" /\ t.lcRet \in {"ext", "tp"}
           => /\ inst'[1] = [ClearedPosition(inst[1]) EXCEPT !.last_signal = t.sig]
              /\ t2.state = "live"
              /\ t2.pc \in {"recv", "x_pos_wait"}
      /\ t.pc = "lc_price_wait" /\ t2.pc # "lc_price_wait" /\ t.lcRet = "flip"
           => t2.state = "live" /\ t2.pc = "cp_cancel_wait"
      /\ t.pc = "b_sl_wait" /\ t2.pc # "b_sl_wait" /\ t.entry = "accepted"
         /\ t2.stop = "accepted"
           => /\ inst'[1].position_side = t.sig
              /\ inst'[1].entry_price = t.price
              /\ inst'[1].position_quantity = OrderQuantity(t.price, inst[1].quantity_precision)
              /\ inst'[1].current_trade_id # NoTradeId
              /\ t2.state = "live"
              /\ t2.pc = "recv"
    ]_vars

\* The CLOSED record of a flip and the OPEN record of the new side were both
\* lost: the ledger still holds only the first OPEN record, the instance has
\* recorded the SHORT position and handles the next candle.
C31_Witness ==
  /\ Len(ledger["u1"]) = 1
  /\ inst[1].position_side = "SHORT"
  /\ exPos["u1"] = "SHORT"
  /\ task[1].state = "live"
  /\ task[1].candles = 2
  /\ task[1].pc = "h_pos_wait"

\* ------------------------------------------------ isolation
\* what belongs to tenant u: its registry entry and persisted status, its
\* instances with their stream tasks and connections, its exchange account and
\* its ledger
C32_StateOf(u) ==
  <<user_bots[u], dbStatus[u], exPos[u], exStop[u], ledger[u], stats[u],
    [i \in {j \in Inst : inst[j].owner = u} |-> <<inst[i], task[i], conn[i]>>]>>

\* C32: a step of tenant A (a start, a failed start, a stop, a stream error, a
\* closed candle, a rejected order) leaves everything of tenant B as it was, and
\* the sweep's list and position too; the sweep takes every entry of its list
\* in turn whatever became of A's entry, and once it is done with B's instance
\* that it found inactive, B has no entry left.
C32_TenantsIsolated ==
  [][/\ OfTenantA
          => /\ C32_StateOf(TenantB)' = C32_StateOf(TenantB)
             /\ inactive_users' = inactive_users
             /\ proc'[Sweep] = proc[Sweep]
     /\ (proc[Sweep].pc = "sweep_loop" /\ proc'[Sweep] # proc[Sweep]
           /\ inactive_users # <<>>)
          => /\ inactive_users' = Tail(inactive_users)
             /\ proc'[Sweep].pc \in {"sweep_loop", "stop_sync"}
     /\ (proc[Sweep].pc # "sleep" /\ proc'[Sweep].pc = "sleep")
          => inactive_users = <<>>
     /\ (hist'.swept[2] /\ proc'[Sweep].bot # 2) => ~InMap(TenantB)'
    ]_vars

\* A's order was rejected and a start of A failed; the sweep found both
\* tenants inactive, met a KeyError on A's entry and evicted B in the same pass.
C32_Witness ==
  /\ task[1].entry = "rejected"
  /\ \E r \in Req : proc[r].user = TenantA /\ proc[r].cause \in StartFailures
  /\ hist.keyErrors[Sweep] = 1
  /\ hist.swept[2]
  /\ hist.stoppedWrites[2] = 1
  /\ ~InMap(TenantB)
  /\ proc[Sweep].pc = "sleep"

\* ------------------------------------------------ what the sweep removes
\* C33: the sweep stops and deregisters only instances that are not running:
\* the instance it calls stop() on is not running when it is called, and the
\* instance whose entry it deletes is not running when the entry is deleted.
C33_SweepEvictsOnlyInactive ==
  [][/\ (proc[Sweep].pc = "sweep_loop" /\ proc'[Sweep].pc = "stop_sync")
          => ~IsRunning(proc'[Sweep].bot)
     /\ (proc[Sweep].pc = "stop_ret" /\ proc'[Sweep].pc = "sweep_loop"
           /\ InMap(proc[Sweep].user))
          => ~IsRunning(user_bots[proc[Sweep].user])
    ]_vars

\* ------------------------------------------------ the order of a flip
\* the places of the stream task in a flip that come before the reduce-only
\* close order is sent (binance_client_multi.py line 121)
C34_BeforeCloseOrder ==
  {"x_pos_wait", "lc_pnl_wait", "lc_price_wait", "cp_cancel_wait", "cp_sleep"}

\* C34: in a flip the CLOSED record with the flip reason is written only after
\* the resting orders were cancelled and the reduce-only close order was
\* submitted: the step that writes it is not taken from a place before the
\* submission of the close order.
C34_ClosedLoggedAfterCloseOrder ==
  [][\A u \in Users :
       (/\ Len(ledger'[u]) = Len(ledger[u]) + 1
        /\ ledger'[u][Len(ledger'[u])].reason = "CLOSED_BY_FLIP")
       => task[ledger'[u][Len(ledger'[u])].inst].pc \notin C34_BeforeCloseOrder
    ]_vars

\* ------------------------------------------------ running and registered
\* C35: every instance whose stream task is live is the instance stored in the
\* map under its tenant.
C35_LiveMeansRegistered ==
  \A i \in Inst : task[i].state = "live" => user_bots[inst[i].owner] = i

\* ------------------------------------------------ external close
\* C36: the CLOSED record of an external close is written, and the position
\* state cleared with it, only when the tenant holds no position on the
\* exchange.
C36_ExternalCloseIsReal ==
  [][\A i \in Inst :
       LET u == inst[i].owner IN
       (/\ task[i].pc = "lc_price_wait"
        /\ task[i].lcRet = "ext"
        /\ task'[i].pc # "lc_price_wait"
        /\ inst[i].position_side # None
        /\ inst'[i].position_side = None)
       => exPos[u] = "FLAT"
    ]_vars

\* ------------------------------------------------ take profit and the exchange
\* C37: when the take-profit handling writes the CLOSED record and clears the
\* position state, the tenant's position is no longer open on the exchange.
C37_TakeProfitReallyClosed ==
  [][\A i \in Inst :
       LET u == inst[i].owner IN
       (/\ task[i].pc = "lc_price_wait"
        /\ task[i].lcRet = "tp"
        /\ task'[i].pc # "lc_price_wait"
        /\ inst[i].position_side # None
        /\ inst'[i].position_side = None)
       => exPos'[u] = "FLAT"
    ]_vars

\* ------------------------------------------------ persisted status
\* no request is being served and the sweep sleeps
C38_Quiet ==
  /\ running = Idle
  /\ \A r \in Req : proc[r].pc \in {"idle", "done"}
  /\ proc[Sweep].pc = "sleep"

\* C38: whenever no registry operation is in progress, the persisted status of
\* a tenant is "running" exactly when the map holds a running instance for it.
C38_StatusAgreesWithMap ==
  C38_Quiet =>
    \A u \in Users :
      dbStatus[u] = "running" <=> (InMap(u) /\ IsRunning(user_bots[u]))

\* ------------------------------------------------ the running flag in stop()
\* C39: whenever another task can run (the event loop is free) and an instance
\* that stop() was called on is seen as not running, its stream task has ended
\* and its gateway connection is released.
C39_NotRunningMeansReleased ==
  \A i \in Inst :
    (running = Idle /\ inst[i].stop_requested /\ ~IsRunning(i))
    => (task[i].state # "live" /\ conn[i] = None)

\* ------------------------------------------------ rate limits
\* the requests of class c that identifier was let through with, from time t
\* to time t + window
C40_AdmittedFrom(times, c, t) ==
  {k \in 1..Len(times) : times[k] >= t /\ times[k] <= t + Limits[c].window_seconds}

\* C40: for every identifier and every endpoint class, the requests let through
\* within any window of the class's length are at most the class's
\* max_requests, whatever other classes the identifier calls in between; and a
\* request that is not let through adds no entry to the identifier's history.
C40_LimitPerClass ==
  [][/\ \A identifier \in Identifiers, c \in Classes :
          \A k \in 1..Len(admitted'[identifier][c]) :
            Cardinality(C40_AdmittedFrom(admitted'[identifier][c], c,
                                         admitted'[identifier][c][k]))
              <= Limits[c].max_requests
     /\ (now' = now /\ admitted' = admitted)
          => \A identifier \in Identifiers :
               Len(requests'[identifier]) <= Len(requests[identifier])
    ]_vars

=============================================================================
